---- MODULE Spec2Model ----
(***************************************************************************)
(* Model of the two Alicat flow-controller drivers:                        *)
(*   src/drivers/alicat.py         class Alicat        (Modbus TCP)         *)
(*   src/drivers/alicat_serial.py  class AlicatSerial  (ASCII over serial)  *)
(*                                                                         *)
(* One driver instance (one handle) is shared by the callers in Threads.   *)
(* kind and dummy are the constructor's choices and never change.  Every   *)
(* action is one step of one caller inside one method; a step contains at  *)
(* most one access to the shared attributes _cli/_serial, connected and    *)
(* _lock, so the interleavings of the model are those of the threads.      *)
(*                                                                         *)
(* Numbers: a Python float given by the caller or written as a literal is  *)
(* an integer count of 1e-5 units (22.0 is 2200000); a single-precision     *)
(* float is the record [sign, exp, frac] of its IEEE-754 fields (biased     *)
(* exponent, 23-bit fraction).                                              *)
(***************************************************************************)
EXTENDS Integers, Sequences, FiniteSets, TLC

\* ------------------------------------------------------------ bounds
\* At most this many keys in the dict handed to write() (6: every subset).
MaxKeys == 6
\* At most this many failed or malformed exchanges (or failed connects) in a run.
MaxFaults == 1
\* At most this many lines waiting in the serial port's input buffer.
MaxLines == 2
\* At most this many calls of connect() and run() on one LiquidLineTest.
MaxCalls == 2
\* At most this many flow rates and this many voltages in a run().
MaxFlows == 2
MaxVoltages == 2
\* At most this many calls on one RigolDP2301 driven on its own.
MaxOps == 3
\* RigolDP2301.MAX_CHANNELS
MAX_CHANNELS == 3

\* ------------------------------------------------------------ inputs
Threads == {1, 2}
Kinds == {"modbus", "serial"}
\* flow_rate arguments: 1000.0 (the inclusive upper limit), 1500.0 and -1.0
FlowRates == {100000000, 150000000, -100000}
Pressures == {150000}
GasNames == {"N2"}
Gains == {10}
Keys == {"setpoint", "pressure", "gas", "P", "D", "I"}

\* ------------------------------------------------------------ constants
REG_SETPOINT_F32 == 1349
REG_VALVEDRIVE_F32 == 1351
REG_PRESSURE_F32 == 1353
REG_TEMPERATURE_F32 == 1359
REG_VOL_FLOW_F32 == 1361
REG_MASS_FLOW_F32 == 1363
BLOCK_START == 1349
BLOCK_LEN == 16
SETPOINT_MIN == 0
SETPOINT_MAX == 100000000
REG_PAIR_LEN == 2

\* Python's None where an int is expected (set_pid's default arguments).
PyNone == -1
\* self._cli = None / self._serial = None: no transport object.
None == [obj |-> FALSE, open |-> FALSE]
\* threading.Lock(): 0 is unlocked, otherwise the holder.
Free == 0
NoVal == [none |-> TRUE]
EmptyDict == [k \in {} |-> 0]

\* ------------------------------------------------------------ pure helpers
\* dict.update: the entries of p win
Merge(r, p) ==
    [k \in (DOMAIN r) \cup (DOMAIN p) |-> IF k \in DOMAIN p THEN p[k] ELSE r[k]]

\* The single-precision float nearest to a float literal of the model (the
\* rounding struct.pack(">f", val) does): 1000.0 is 0x447A0000, 1500.0 is
\* 0x44BB8000, -1.0 is 0xBF800000, 22.0 is 0x41B00000.
Single(val) ==
    CASE val = 100000000 -> [sign |-> 0, exp |-> 136, frac |-> 7995392]
      [] val = 150000000 -> [sign |-> 0, exp |-> 137, frac |-> 3899392]
      [] val = -100000 -> [sign |-> 1, exp |-> 127, frac |-> 0]
      [] val = 2200000 -> [sign |-> 0, exp |-> 131, frac |-> 3145728]
      [] OTHER -> [sign |-> 0, exp |-> 0, frac |-> 0]

\* struct.pack(">f", v): the four bytes of the float, most significant first
struct_pack_f(v) ==
    <<v.sign * 128 + v.exp \div 2,
      (v.exp % 2) * 128 + v.frac \div 65536,
      (v.frac \div 256) % 256,
      v.frac % 256>>
\* struct.unpack(">f", b): the float whose four bytes are b
struct_unpack_f(b) ==
    [sign |-> b[1] \div 128,
     exp |-> (b[1] % 128) * 2 + b[2] \div 128,
     frac |-> (b[2] % 128) * 65536 + b[3] * 256 + b[4]]

\* A 32-bit unsigned integer is kept as its four base-256 digits, most
\* significant first (it does not fit TLC's integers): struct.unpack(">I", b)
\* and raw.to_bytes(4, "big") leave the digits as they are.
\* raw >> 16
Shr16(raw) == raw[1] * 256 + raw[2]
\* raw & 0xFFFF
Low16(raw) == raw[3] * 256 + raw[4]
\* (hi << 16) | lo, for two 16-bit words
Shl16Or(hi, lo) == <<hi \div 256, hi % 256, lo \div 256, lo % 256>>

_regs_to_float(hi, lo) ==
    LET raw == Shl16Or(hi, lo)
    IN  struct_unpack_f(raw)

\* Mutation of _float_to_regs: the low word first.
_float_to_regs_LowFirst(val) ==
    LET raw == struct_pack_f(val)
    IN  <<Low16(raw), Shr16(raw) % 65536>>
_float_to_regs(val) ==
    LET raw == struct_pack_f(val)
    IN  <<Shr16(raw) % 65536, Low16(raw)>>

\* f"{x:.4f}": x (1e-5 units) rounded half-even to 1e-4 units, the digits sent
Fmt4(x) ==
    LET q == x \div 10
        r == x % 10
    IN  IF r > 5 \/ (r = 5 /\ q % 2 = 1) THEN q + 1 ELSE q

\* The device measures on: it holds sample 0 or sample 1 of its telemetry.
\* Its 16 input registers from BLOCK_START in sample 0: setpoint 22.0, valve
\* drive 27.0, pressure 8.92, temperature 306.0, volumetric flow 21.0, mass flow
\* 23.0 at word offsets 0, 2, 4, 10, 12, 14; in sample 1: 22.0, 21.0, 23.0,
\* 306.0, 27.0 and 8.92.  The other words are not floats of ours.
InputImage(s) ==
    IF s = 0
    THEN <<16816, 0, 16856, 0, 16654, 47186, 1, 2, 3, 4, 17305, 0, 16808, 0,
           16824, 0>>
    ELSE <<16816, 0, 16808, 0, 16824, 0, 1, 2, 3, 4, 17305, 0, 16856, 0,
           16654, 47186>>
\* The device's holding registers: the setpoint pair at REG_SETPOINT_F32.
HoldingImage == <<16816, 0>>

\* rr.registers of a successful read of count registers at address, the device
\* holding sample s
InputRegs(s, address, count) ==
    [i \in 1..count |-> InputImage(s)[address - BLOCK_START + i]]
HoldingRegs(address, count) ==
    [i \in 1..count |-> HoldingImage[address - REG_SETPOINT_F32 + i]]

\* The reading read() returns in dummy mode, per driver.
AlicatDummyReading ==
    [connected |-> TRUE, setpoint |-> 2200000, pressure |-> 892000,
     temperature |-> 30600000, volumetric_flow |-> 2100000,
     mass_flow |-> 2300000, valve_drive |-> 2700000]
AlicatSerialDummyReading ==
    [connected |-> TRUE, setpoint |-> 2200000, valve_drive |-> 2700000,
     pressure |-> 892000, temperature |-> 2350000,
     volumetric_flow |-> 2200000, mass_flow |-> 2300000]
DummyPid == [P |-> 50, D |-> 120, I |-> 0]

\* ------------------------------------------------------------ the ASCII device
\* A response line is the sequence of its whitespace-separated fields; <<>> is
\* no response within the timeout.
StatusLine(s) ==
    IF s = 0
    THEN <<"A", "8.920", "306.00", "21.00", "23.00", "22.0000", "Air">>
    ELSE <<"A", "23.00", "306.00", "8.920", "21.00", "22.0000", "Air">>
ShortLine == <<"A", "8.920", "306.00">>
GarbledLine == <<"A", "x", "306.00", "21.00", "23.00", "22.0000", "Air">>
\* six fields: the gas is missing
SixLine == <<"A", "8.920", "306.00", "21.00", "23.00", "22.0000">>
BadStatus == {ShortLine, SixLine, GarbledLine, <<>>}
BadAck == {<<>>}

\* float(s) / int(s) on the tokens above; "ValueError" when Python raises
IsNumber(s) == s \in {"8.920", "306.00", "21.00", "23.00", "22.0000", "50"}
float(s) ==
    CASE s = "8.920" -> 892000
      [] s = "306.00" -> 30600000
      [] s = "21.00" -> 2100000
      [] s = "23.00" -> 2300000
      [] s = "22.0000" -> 2200000
      [] s = "50" -> 5000000
      [] OTHER -> 0
IsInt(s) == s \in {"50"}
int(s) == IF s = "50" THEN 50 ELSE 0

GAS_TABLE(name) ==
    CASE name = "Air" -> 0 [] name = "Ar" -> 1 [] name = "CH4" -> 2
      [] name = "CO" -> 3 [] name = "CO2" -> 4 [] name = "C2H6" -> 5
      [] name = "H2" -> 6 [] name = "He" -> 7 [] name = "N2" -> 8
      [] name = "N2O" -> 9 [] name = "Ne" -> 10 [] name = "O2" -> 11
      [] name = "C3H8" -> 12 [] name = "SF6" -> 13 [] name = "C4H10" -> 14
      [] name = "C2H2" -> 15 [] name = "C2H4" -> 16 [] name = "NH3" -> 18
      [] name = "Kr" -> 20 [] name = "Xe" -> 21 [] name = "CF4" -> 25
      [] OTHER -> 0

\* ------------------------------------------------------------ state
VARIABLES
    kind,       \* which driver class the handle is: "modbus" | "serial"
    dummy,      \* self._dummy
    cli,        \* Alicat._cli: None or the ModbusTcpClient [obj, open]
    serial,     \* AlicatSerial._serial: None or the serial.Serial [obj, open]
    connected,  \* self.connected
    lock,       \* self._lock: Free or the thread holding it
    pc,         \* per caller: "idle" or its position inside the method
    op,         \* per caller: the public method it called last
    arg,        \* per caller: the arguments of that call
    loc,        \* per caller: the method's local variables
    ret,        \* per caller: how the last call ended, [st, val]
    sent,       \* per caller: the transport exchanges the call issued, in order
    warned,     \* per caller: logger.warning calls made by the call
    touched,    \* per caller: the call in flight has used the transport handle
    foreign,    \* per caller: another caller used the handle since touched
    io,         \* some transport call was made or transport object created
    dev,        \* the device: its selected PID slot, its P, D, I gains, how
                \* often it or the line to it has misbehaved, and which
                \* telemetry sample it holds
    codec,      \* a use of the module's register codec outside any handle:
                \* [at, val, regs, out]
    port,       \* one _command() call followed statement by statement, with
                \* the serial port's input buffer: [at, cmd, inbuf, out,
                \* steps, st, response]
    test        \* a LiquidLineTest and the devices it holds: [at, fn, calls,
                \* alicat, rigol, lakeshore, flow_rates, voltages, i, j,
                \* data, cause, exc, out]; and, for the RigolDP2301 in
                \* test.rigol driven on its own, the channel argument of the
                \* call, the instrument I/O the call has made (io) and how
                \* the call before it ended (prev)

vars == <<kind, dummy, cli, serial, connected, lock, pc, op, arg, loc, ret,
          sent, warned, touched, foreign, io, dev, codec, port, test>>
\* What no step of a handle's methods changes: the constructor's choices, the
\* values of a codec call made outside the handle, and the statement-level
\* view of _command(), whose calls the methods make in one step; and the test
\* sequencer, which owns a handle of its own.
cfgVars == <<kind, dummy, codec, port, test>>

NoArg ==
    [include_pid |-> FALSE, flow_rate |-> 0, pressure |-> 0, gas |-> "",
     P |-> PyNone, D |-> PyNone, I |-> PyNone, data |-> EmptyDict]
NoLoc == [result |-> NoVal, gains |-> <<>>, todo |-> <<>>, response |-> <<>>]
NoRet == [st |-> "none", val |-> NoVal]
NoFloat == [sign |-> 0, exp |-> 0, frac |-> 0]
NoCodec == [at |-> "none", val |-> NoFloat, regs |-> <<0, 0>>, out |-> NoFloat]
NoPort ==
    [at |-> "none", cmd |-> "", inbuf |-> <<>>, out |-> <<>>, steps |-> <<>>,
     st |-> "none", response |-> [text |-> "", when |-> "never"]]
NoError == [type |-> "none", from |-> "none"]
\* LiquidLineTest.__init__: alicat, rigol and lakeshore are None
NoTest ==
    [at |-> "idle", fn |-> "none", calls |-> 0,
     alicat |-> [obj |-> FALSE, connected |-> FALSE, closed |-> FALSE],
     rigol |-> [obj |-> FALSE, instrument |-> FALSE, is_connected |-> FALSE],
     lakeshore |-> FALSE,
     flow_rates |-> 0, voltages |-> 0, i |-> 0, j |-> 0, data |-> 0,
     cause |-> NoError, exc |-> NoError,
     out |-> [st |-> "none", err |-> NoError],
     channel |-> 0, io |-> 0, prev |-> [fn |-> "none", st |-> "none"]]

\* The handle as __init__ leaves it.
Constructed ==
    /\ cli = None
    /\ serial = None
    /\ connected = FALSE
    /\ lock = Free
    /\ pc = [t \in Threads |-> "idle"]
    /\ op = [t \in Threads |-> "none"]
    /\ arg = [t \in Threads |-> NoArg]
    /\ loc = [t \in Threads |-> NoLoc]
    /\ ret = [t \in Threads |-> NoRet]
    /\ sent = [t \in Threads |-> <<>>]
    /\ warned = [t \in Threads |-> 0]
    /\ touched = [t \in Threads |-> FALSE]
    /\ foreign = [t \in Threads |-> FALSE]
    /\ io = FALSE
    /\ dev = [sel |-> 0, gains |-> <<50, 120, 7>>, faults |-> 0, sample |-> 0]

Init ==
    /\ kind \in Kinds
    /\ dummy \in BOOLEAN
    /\ Constructed
    /\ codec = NoCodec
    /\ port = NoPort
    /\ test = NoTest

\* ------------------------------------------------------------ step helpers
Goto(t, label) ==
    /\ pc' = [pc EXCEPT ![t] = label]
    /\ ret' = ret

\* the call returns val (st = "ok") or raises st: the outcome is with the
\* caller ("done") until it takes it (Return)
Done(t, st, val) ==
    /\ pc' = [pc EXCEPT ![t] = "done"]
    /\ ret' = [ret EXCEPT ![t] = [st |-> st, val |-> val]]

\* Bookkeeping of a step of t: acc, the step called a method of the transport
\* object, created it or cleared the attribute; done, the call ends with it.
Ghost(t, acc, done) ==
    /\ touched' = [touched EXCEPT ![t] = (touched[t] \/ acc) /\ ~done]
    /\ foreign' = [u \in Threads |->
                     IF u = t THEN foreign[t] /\ ~done
                     ELSE foreign[u] \/ (acc /\ touched[u])]
    /\ io' = (io \/ acc)

Send(t, x) == sent' = [sent EXCEPT ![t] = Append(sent[t], x)]

\* ------------------------------------------------------------ callers
ModbusOps ==
    {"initialize", "close", "read", "read_setpoint", "read_mass_flow",
     "read_pressure", "read_temperature", "set_flow_rate", "read_pid",
     "set_pid", "write"}
SerialOps ==
    {"initialize", "close", "shutdown", "read", "read_pid", "set_flow_rate",
     "set_pressure", "set_gas", "set_pid", "write"}
Ops(k) == IF k = "modbus" THEN ModbusOps ELSE SerialOps

\* The value write() is given for a key: any flow rate for "setpoint", the one
\* pressure, gas name or gain of the input sets for the others.
KeyValues(k) ==
    CASE k = "setpoint" -> FlowRates
      [] k = "pressure" -> Pressures
      [] k = "gas" -> GasNames
      [] OTHER -> Gains
DictsOn(S) ==
    {[k \in S |-> IF k = "setpoint" THEN v ELSE CHOOSE x \in KeyValues(k) : TRUE] :
        v \in FlowRates}
\* the dicts handed to write(): at most MaxKeys of the keys
WriteDicts ==
    UNION {DictsOn(S) : S \in {K \in SUBSET Keys : Cardinality(K) <= MaxKeys}}

OptGains == Gains \cup {PyNone}

Args(o) ==
    CASE o = "read" -> {[NoArg EXCEPT !.include_pid = b] : b \in BOOLEAN}
      [] o = "set_flow_rate" -> {[NoArg EXCEPT !.flow_rate = v] : v \in FlowRates}
      [] o = "set_pressure" -> {[NoArg EXCEPT !.pressure = v] : v \in Pressures}
      [] o = "set_gas" -> {[NoArg EXCEPT !.gas = g] : g \in GasNames}
      [] o = "set_pid" ->
            {[NoArg EXCEPT !.P = p, !.D = d, !.I = i] :
                p \in OptGains, d \in OptGains, i \in OptGains}
      [] o = "write" -> {[NoArg EXCEPT !.data = d] : d \in WriteDicts}
      [] OTHER -> {NoArg}

\* The arguments of the calls that run concurrently (Spec): one of each kind.
ConcArgs(o) ==
    CASE o = "read" -> {[NoArg EXCEPT !.include_pid = b] : b \in BOOLEAN}
      [] o = "set_flow_rate" -> {[NoArg EXCEPT !.flow_rate = 150000000]}
      [] o = "set_pressure" -> {[NoArg EXCEPT !.pressure = v] : v \in Pressures}
      [] o = "set_gas" -> {[NoArg EXCEPT !.gas = g] : g \in GasNames}
      [] o = "set_pid" -> {[NoArg EXCEPT !.P = p] : p \in Gains}
      [] o = "write" -> {[NoArg EXCEPT !.data = d] : d \in DictsOn({"setpoint"})}
      [] OTHER -> {NoArg}

\* The single-pair reads all enter _read_input_f32 / _read_holding_f32.
Entry(o) ==
    IF o \in {"read_setpoint", "read_mass_flow", "read_pressure",
              "read_temperature"}
    THEN "read_pair" ELSE o

\* A caller invokes a public method of the handle with arguments of A[method].
CallWith(t, A) ==
    /\ pc[t] = "idle"
    /\ \E o \in Ops(kind) : \E a \in A[o] :
          /\ op' = [op EXCEPT ![t] = o]
          /\ arg' = [arg EXCEPT ![t] = a]
          /\ pc' = [pc EXCEPT ![t] = Entry(o)]
    /\ UNCHANGED <<cfgVars, dev, cli, serial, connected, lock, loc, ret, sent,
                   warned, touched, foreign, io>>

\* The caller takes the outcome of its call; the call's frame is gone.
Return(t) ==
    /\ pc[t] = "done"
    /\ pc' = [pc EXCEPT ![t] = "idle"]
    /\ op' = [op EXCEPT ![t] = "none"]
    /\ arg' = [arg EXCEPT ![t] = NoArg]
    /\ loc' = [loc EXCEPT ![t] = NoLoc]
    /\ ret' = [ret EXCEPT ![t] = NoRet]
    /\ sent' = [sent EXCEPT ![t] = <<>>]
    /\ warned' = [warned EXCEPT ![t] = 0]
    /\ UNCHANGED <<cfgVars, dev, cli, serial, connected, lock, touched, foreign,
                   io>>

\* ------------------------------------------------------------ pymodbus
\* The device and the line to it misbehave at most MaxFaults times in a run;
\* Faulted(d, bad) is the device after an exchange that did (bad) or did not.
CanFail == dev.faults < MaxFaults
Faulted(d, bad) == [d EXCEPT !.faults = IF bad THEN @ + 1 ELSE @]
\* The device after an exchange in which it was asked for its telemetry: when
\* it answered (not bad) it holds its next sample.
Sampled(d, bad) == IF bad THEN Faulted(d, TRUE) ELSE [d EXCEPT !.sample = 1 - @]

\* What one request on the client can do: a response ("ok"), an error response
\* ("err", isError() is true), and on a client whose socket is not open also a
\* raised ConnectionException ("exc"); a request that gets through has
\* (re)opened the socket.
MbOutcomes(c) ==
    IF ~CanFail THEN {"ok"}
    ELSE IF c.open THEN {"ok", "err"} ELSE {"ok", "err", "exc"}
MbAfter(c, o) == IF o = "exc" THEN c ELSE [c EXCEPT !.open = TRUE]

\* Mutation of Alicat_initialize: initialize() without the dummy-mode return.
Alicat_initialize_NoDummy(t) ==
    /\ kind = "modbus"
    /\ pc[t] = "initialize"
    /\ IF cli.obj /\ cli.open
       THEN /\ connected' = TRUE
            /\ cli' = cli
            /\ Done(t, "ok", NoVal)
            /\ Ghost(t, FALSE, TRUE)
       ELSE /\ cli' = [obj |-> TRUE, open |-> FALSE]
            /\ connected' = connected
            /\ Goto(t, "initialize_connect")
            /\ Ghost(t, TRUE, FALSE)
    /\ UNCHANGED <<cfgVars, dev, serial, lock, op, arg, loc, sent, warned>>

\* ------------------------------------------------------------ Alicat (Modbus)
\* initialize(), lines 88-98: the dummy and already-connected returns, else a
\* new client object replaces self._cli.
Alicat_initialize(t) ==
    /\ kind = "modbus"
    /\ pc[t] = "initialize"
    /\ IF dummy \/ (cli.obj /\ cli.open)
       THEN /\ connected' = TRUE
            /\ cli' = cli
            /\ Done(t, "ok", NoVal)
            /\ Ghost(t, FALSE, TRUE)
       ELSE /\ cli' = [obj |-> TRUE, open |-> FALSE]
            /\ connected' = connected
            /\ Goto(t, "initialize_connect")
            /\ Ghost(t, TRUE, FALSE)
    /\ UNCHANGED <<cfgVars, dev, serial, lock, op, arg, loc, sent, warned>>

\* initialize(), lines 100-102: self._cli.connect() and the raise on failure.
Alicat_initialize_connect(t) ==
    /\ kind = "modbus"
    /\ pc[t] = "initialize_connect"
    /\ IF ~cli.obj
       THEN /\ cli' = cli
            /\ dev' = dev
            /\ Done(t, "AttributeError", NoVal)
            /\ Ghost(t, FALSE, TRUE)
       ELSE \E ok \in {TRUE} \cup {b \in {FALSE} : CanFail} :
              /\ cli' = [cli EXCEPT !.open = ok]
              /\ dev' = Faulted(dev, ~ok)
              /\ IF ok THEN Goto(t, "initialize_flag")
                       ELSE Done(t, "ConnectionError", NoVal)
              /\ Ghost(t, TRUE, ~ok)
    /\ UNCHANGED <<cfgVars, serial, connected, lock, op, arg, loc, sent, warned>>

\* initialize(), line 104
Alicat_initialize_flag(t) ==
    /\ kind = "modbus"
    /\ pc[t] = "initialize_flag"
    /\ connected' = TRUE
    /\ Done(t, "ok", NoVal)
    /\ Ghost(t, FALSE, TRUE)
    /\ UNCHANGED <<cfgVars, dev, cli, serial, lock, op, arg, loc, sent, warned>>

\* close(), line 109: if self._cli
Alicat_close(t) ==
    /\ kind = "modbus"
    /\ pc[t] = "close"
    /\ Goto(t, IF cli.obj THEN "close_call" ELSE "close_flag")
    /\ Ghost(t, FALSE, FALSE)
    /\ UNCHANGED <<cfgVars, dev, cli, serial, connected, lock, op, arg, loc, sent,
                   warned>>

\* close(), line 110: self._cli.close()
Alicat_close_call(t) ==
    /\ kind = "modbus"
    /\ pc[t] = "close_call"
    /\ IF ~cli.obj
       THEN /\ cli' = cli
            /\ Done(t, "AttributeError", NoVal)
            /\ Ghost(t, FALSE, TRUE)
       ELSE /\ cli' = [cli EXCEPT !.open = FALSE]
            /\ Goto(t, "close_clear")
            /\ Ghost(t, TRUE, FALSE)
    /\ UNCHANGED <<cfgVars, dev, serial, connected, lock, op, arg, loc, sent, warned>>

\* close(), line 111: self._cli = None
Alicat_close_clear(t) ==
    /\ kind = "modbus"
    /\ pc[t] = "close_clear"
    /\ cli' = None
    /\ Goto(t, "close_flag")
    /\ Ghost(t, TRUE, FALSE)
    /\ UNCHANGED <<cfgVars, dev, serial, connected, lock, op, arg, loc, sent, warned>>

\* Mutation of Alicat_close_flag: close() that forgets self.connected = False.
Alicat_close_flag_KeepsFlag(t) ==
    /\ kind = "modbus"
    /\ pc[t] = "close_flag"
    /\ connected' = connected
    /\ Done(t, "ok", NoVal)
    /\ Ghost(t, FALSE, TRUE)
    /\ UNCHANGED <<cfgVars, dev, cli, serial, lock, op, arg, loc, sent, warned>>

\* close(), lines 112-113: self.connected = False
Alicat_close_flag(t) ==
    /\ kind = "modbus"
    /\ pc[t] = "close_flag"
    /\ connected' = FALSE
    /\ Done(t, "ok", NoVal)
    /\ Ghost(t, FALSE, TRUE)
    /\ UNCHANGED <<cfgVars, dev, cli, serial, lock, op, arg, loc, sent, warned>>

\* The register a single-pair read addresses, and its function code.
PairAddress(o) ==
    CASE o = "read_setpoint" -> REG_SETPOINT_F32
      [] o = "read_mass_flow" -> REG_MASS_FLOW_F32
      [] o = "read_pressure" -> REG_PRESSURE_F32
      [] o = "read_temperature" -> REG_TEMPERATURE_F32
PairFc(o) == IF o = "read_setpoint" THEN 3 ELSE 4

\* with self._lock: if not self._cli: raise RuntimeError("Not connected")
\* (the head of every locked method of Alicat): the lock is taken when free;
\* without a client the call raises and the lock is released again.
LockedEntry(t, next) ==
    /\ lock = Free
    /\ IF ~cli.obj
       THEN /\ lock' = Free
            /\ Done(t, "RuntimeError", NoVal)
            /\ Ghost(t, FALSE, TRUE)
       ELSE /\ lock' = t
            /\ Goto(t, next)
            /\ Ghost(t, FALSE, FALSE)

\* _read_input_f32 / _read_holding_f32, lines 125-127 and 148-150
Alicat_read_pair(t) ==
    /\ kind = "modbus"
    /\ pc[t] = "read_pair"
    /\ LockedEntry(t, "read_pair_io")
    /\ UNCHANGED <<cfgVars, dev, cli, serial, connected, op, arg, loc, sent, warned>>

\* _read_input_f32 / _read_holding_f32, lines 129-136 and 152-159
Alicat_read_pair_io(t) ==
    /\ kind = "modbus"
    /\ pc[t] = "read_pair_io"
    /\ lock' = Free
    /\ IF ~cli.obj
       THEN /\ cli' = cli
            /\ dev' = dev
            /\ sent' = sent
            /\ Done(t, "AttributeError", NoVal)
            /\ Ghost(t, FALSE, TRUE)
       ELSE \E o \in MbOutcomes(cli) :
              /\ cli' = MbAfter(cli, o)
              /\ dev' = Sampled(dev, o # "ok")
              /\ Send(t, [fc |-> PairFc(op[t]), address |-> PairAddress(op[t]),
                          count |-> REG_PAIR_LEN])
              /\ Ghost(t, TRUE, TRUE)
              /\ CASE o = "exc" -> Done(t, "ConnectionException", NoVal)
                   [] o = "err" -> Done(t, "IOError", NoVal)
                   [] o = "ok" ->
                        LET regs == IF PairFc(op[t]) = 3
                                    THEN HoldingRegs(PairAddress(op[t]), REG_PAIR_LEN)
                                    ELSE InputRegs(dev.sample, PairAddress(op[t]),
                                                   REG_PAIR_LEN)
                        IN  Done(t, "ok", [value |-> _regs_to_float(regs[1], regs[2])])
    /\ UNCHANGED <<cfgVars, serial, connected, op, arg, loc, warned>>

\* read(), lines 192-205: the dummy reading, else the lock and the guard
Alicat_read(t) ==
    /\ kind = "modbus"
    /\ pc[t] = "read"
    /\ IF dummy
       THEN /\ lock' = lock
            /\ Done(t, "ok", AlicatDummyReading)
            /\ Ghost(t, FALSE, TRUE)
       ELSE LockedEntry(t, "read_io")
    /\ UNCHANGED <<cfgVars, dev, cli, serial, connected, op, arg, loc, sent, warned>>

\* read(), lines 207-214: the block read; the lock is released with it
Alicat_read_io(t) ==
    /\ kind = "modbus"
    /\ pc[t] = "read_io"
    /\ lock' = Free
    /\ IF ~cli.obj
       THEN /\ cli' = cli
            /\ dev' = dev
            /\ sent' = sent
            /\ loc' = loc
            /\ Done(t, "AttributeError", NoVal)
            /\ Ghost(t, FALSE, TRUE)
       ELSE \E o \in MbOutcomes(cli) :
              /\ cli' = MbAfter(cli, o)
              /\ dev' = Sampled(dev, o # "ok")
              /\ Send(t, [fc |-> 4, address |-> BLOCK_START, count |-> BLOCK_LEN])
              /\ Ghost(t, TRUE, o # "ok")
              /\ CASE o = "exc" -> Done(t, "ConnectionException", NoVal) /\ loc' = loc
                   [] o = "err" -> Done(t, "IOError", NoVal) /\ loc' = loc
                   [] o = "ok" ->
                        /\ loc' = [loc EXCEPT ![t].result =
                                       [r |-> InputRegs(dev.sample, BLOCK_START,
                                                      BLOCK_LEN)]]
                        /\ Goto(t, "read_build")
    /\ UNCHANGED <<cfgVars, serial, connected, op, arg, warned>>

\* Mutation of AlicatReading: the temperature from the pair before its own.
AlicatReading_Shifted(r, conn) ==
    LET f32(idx) == _regs_to_float(r[idx + 1], r[idx + 2])
    IN  [connected |-> conn,
         setpoint |-> f32(0),
         valve_drive |-> f32(2),
         pressure |-> f32(4),
         temperature |-> f32(8),
         volumetric_flow |-> f32(12),
         mass_flow |-> f32(14)]
\* read(), lines 216-227: the result dict (r[idx] is r[idx + 1] here)
AlicatReading(r, conn) ==
    LET f32(idx) == _regs_to_float(r[idx + 1], r[idx + 2])
    IN  [connected |-> conn,
         setpoint |-> f32(0),
         valve_drive |-> f32(2),
         pressure |-> f32(4),
         temperature |-> f32(10),
         volumetric_flow |-> f32(12),
         mass_flow |-> f32(14)]

\* read(), lines 216-233 without PID: the result is built and returned; with
\* include_pid the call goes on into read_pid()
Alicat_read_build(t) ==
    /\ kind = "modbus"
    /\ pc[t] = "read_build"
    /\ LET result == AlicatReading(loc[t].result.r, connected)
       IN  IF arg[t].include_pid
           THEN /\ loc' = [loc EXCEPT ![t].result = result]
                /\ Goto(t, "read_pid")
                /\ Ghost(t, FALSE, FALSE)
           ELSE /\ loc' = loc
                /\ Done(t, "ok", result)
                /\ Ghost(t, FALSE, TRUE)
    /\ UNCHANGED <<cfgVars, dev, cli, serial, connected, lock, op, arg, sent, warned>>

\* What read_pid() hands back: its dict, merged into read()'s result when
\* read(include_pid=True) called it (result.update(pid_values)).
PidReturn(t, pid) ==
    IF op[t] = "read" THEN Merge(loc[t].result, pid) ELSE pid

\* read_pid(), lines 280-285
Alicat_read_pid(t) ==
    /\ kind = "modbus"
    /\ pc[t] = "read_pid"
    /\ IF dummy
       THEN /\ lock' = lock
            /\ Done(t, "ok", PidReturn(t, DummyPid))
            /\ Ghost(t, FALSE, TRUE)
       ELSE LockedEntry(t, "read_pid_sel")
    /\ UNCHANGED <<cfgVars, dev, cli, serial, connected, op, arg, loc, sent, warned>>

\* read_pid(), lines 287-290, 296-299, 305-308: the select write of the next
\* slot; its response is not looked at
Alicat_read_pid_sel(t) ==
    /\ kind = "modbus"
    /\ pc[t] = "read_pid_sel"
    /\ IF ~cli.obj
       THEN /\ cli' = cli
            /\ dev' = dev
            /\ sent' = sent
            /\ lock' = Free
            /\ Done(t, "AttributeError", NoVal)
            /\ Ghost(t, FALSE, TRUE)
       ELSE \E o \in MbOutcomes(cli) :
              /\ cli' = MbAfter(cli, o)
              /\ dev' = IF o = "ok"
                        THEN [dev EXCEPT !.sel = Len(loc[t].gains)]
                        ELSE Faulted(dev, TRUE)
              /\ Send(t, [fc |-> 16, address |-> 999,
                          values |-> <<14, Len(loc[t].gains)>>])
              /\ Ghost(t, TRUE, o = "exc")
              /\ IF o = "exc"
                 THEN lock' = Free /\ Done(t, "ConnectionException", NoVal)
                 ELSE lock' = lock /\ Goto(t, "read_pid_rd")
    /\ UNCHANGED <<cfgVars, serial, connected, op, arg, loc, warned>>

\* Mutation of Alicat_read_pid_rd: an error response of a result read ends the
\* call with IOError instead of giving 0 for the gain.
Alicat_read_pid_rd_Strict(t) ==
    /\ kind = "modbus"
    /\ pc[t] = "read_pid_rd"
    /\ cli.obj
    /\ \E o \in MbOutcomes(cli) :
          LET gains == Append(loc[t].gains, dev.gains[dev.sel + 1])
              last == Len(gains) = 3
          IN  /\ cli' = MbAfter(cli, o)
              /\ dev' = Faulted(dev, o # "ok")
              /\ Send(t, [fc |-> 4, address |-> 1000, count |-> 1])
              /\ Ghost(t, TRUE, o # "ok" \/ last)
              /\ IF o # "ok"
                 THEN /\ lock' = Free
                      /\ loc' = loc
                      /\ Done(t, "IOError", NoVal)
                 ELSE IF last
                 THEN /\ lock' = Free
                      /\ loc' = loc
                      /\ Done(t, "ok", PidReturn(t,
                            [P |-> gains[1], D |-> gains[2], I |-> gains[3]]))
                 ELSE /\ lock' = lock
                      /\ loc' = [loc EXCEPT ![t].gains = gains]
                      /\ Goto(t, "read_pid_sel")
    /\ UNCHANGED <<cfgVars, serial, connected, op, arg, warned>>

\* read_pid(), lines 291-294, 300-303, 309-314: the read of the result register;
\* an error response gives 0 for the gain; after the third the dict is returned
Alicat_read_pid_rd(t) ==
    /\ kind = "modbus"
    /\ pc[t] = "read_pid_rd"
    /\ IF ~cli.obj
       THEN /\ cli' = cli
            /\ sent' = sent
            /\ loc' = loc
            /\ dev' = dev
            /\ lock' = Free
            /\ Done(t, "AttributeError", NoVal)
            /\ Ghost(t, FALSE, TRUE)
       ELSE \E o \in MbOutcomes(cli) :
              LET gain == IF o = "ok" THEN dev.gains[dev.sel + 1] ELSE 0
                  gains == Append(loc[t].gains, gain)
                  last == Len(gains) = 3
              IN  /\ cli' = MbAfter(cli, o)
                  /\ dev' = Faulted(dev, o # "ok")
                  /\ Send(t, [fc |-> 4, address |-> 1000, count |-> 1])
                  /\ Ghost(t, TRUE, o = "exc" \/ last)
                  /\ IF o = "exc"
                     THEN /\ lock' = Free
                          /\ loc' = loc
                          /\ Done(t, "ConnectionException", NoVal)
                     ELSE IF last
                     THEN /\ lock' = Free
                          /\ loc' = loc
                          /\ Done(t, "ok", PidReturn(t,
                                [P |-> gains[1], D |-> gains[2], I |-> gains[3]]))
                     ELSE /\ lock' = lock
                          /\ loc' = [loc EXCEPT ![t].gains = gains]
                          /\ Goto(t, "read_pid_sel")
    /\ UNCHANGED <<cfgVars, serial, connected, op, arg, warned>>

\* set_flow_rate(), lines 261-266: the dummy return, else the range warning
Alicat_set_flow_rate(t) ==
    /\ kind = "modbus"
    /\ pc[t] = "set_flow_rate"
    /\ IF dummy
       THEN /\ warned' = warned
            /\ Done(t, "ok", [status |-> "ok", setpoint |-> arg[t].flow_rate])
            /\ Ghost(t, FALSE, TRUE)
       ELSE /\ warned' = [warned EXCEPT ![t] =
                            IF SETPOINT_MIN <= arg[t].flow_rate
                               /\ arg[t].flow_rate <= SETPOINT_MAX
                            THEN @ ELSE @ + 1]
            /\ Goto(t, "write_holding")
            /\ Ghost(t, FALSE, FALSE)
    /\ UNCHANGED <<cfgVars, dev, cli, serial, connected, lock, op, arg, loc, sent>>

\* _write_holding_f32, lines 169-171
Alicat_write_holding(t) ==
    /\ kind = "modbus"
    /\ pc[t] = "write_holding"
    /\ LockedEntry(t, "write_holding_io")
    /\ UNCHANGED <<cfgVars, dev, cli, serial, connected, op, arg, loc, sent, warned>>

\* _write_holding_f32, lines 173-179, and set_flow_rate's return, lines 269-271
Alicat_write_holding_io(t) ==
    /\ kind = "modbus"
    /\ pc[t] = "write_holding_io"
    /\ lock' = Free
    /\ IF ~cli.obj
       THEN /\ cli' = cli
            /\ dev' = dev
            /\ sent' = sent
            /\ Done(t, "AttributeError", NoVal)
            /\ Ghost(t, FALSE, TRUE)
       ELSE \E o \in MbOutcomes(cli) :
              /\ cli' = MbAfter(cli, o)
              /\ dev' = Faulted(dev, o # "ok")
              /\ Send(t, [fc |-> 16, address |-> REG_SETPOINT_F32,
                          values |-> _float_to_regs(Single(arg[t].flow_rate))])
              /\ Ghost(t, TRUE, TRUE)
              /\ CASE o = "exc" -> Done(t, "ConnectionException", NoVal)
                   [] o = "err" -> Done(t, "IOError", NoVal)
                   [] o = "ok" -> Done(t, "ok", [status |-> "ok",
                                                  setpoint |-> arg[t].flow_rate])
    /\ UNCHANGED <<cfgVars, serial, connected, op, arg, loc, warned>>

\* The gains a set_pid call was given, in the order the method handles them.
Provided(a) ==
    (IF a.P # PyNone THEN <<"P">> ELSE <<>>)
      \o (IF a.D # PyNone THEN <<"D">> ELSE <<>>)
      \o (IF a.I # PyNone THEN <<"I">> ELSE <<>>)
\* P, D, I are the device's gains 1, 2, 3
GainIndex(g) == CASE g = "P" -> 1 [] g = "D" -> 2 [] g = "I" -> 3

\* set_pid(), lines 328-335 (and line 370 when no gain was given)
Alicat_set_pid(t) ==
    /\ kind = "modbus"
    /\ pc[t] = "set_pid"
    /\ IF dummy
       THEN /\ lock' = lock
            /\ loc' = loc
            /\ Done(t, "ok", [status |-> "ok", P |-> arg[t].P, D |-> arg[t].D,
                              I |-> arg[t].I])
            /\ Ghost(t, FALSE, TRUE)
       ELSE /\ lock = Free
            /\ IF ~cli.obj
               THEN /\ lock' = Free
                    /\ loc' = loc
                    /\ Done(t, "RuntimeError", NoVal)
                    /\ Ghost(t, FALSE, TRUE)
               ELSE IF Provided(arg[t]) = <<>>
               THEN /\ lock' = Free
                    /\ loc' = loc
                    /\ Done(t, "ok", [status |-> "ok"])
                    /\ Ghost(t, FALSE, TRUE)
               ELSE /\ lock' = t
                    /\ loc' = [loc EXCEPT ![t].todo = Provided(arg[t]),
                                          ![t].result = EmptyDict]
                    /\ Goto(t, "set_pid_wr")
                    /\ Ghost(t, FALSE, FALSE)
    /\ UNCHANGED <<cfgVars, dev, cli, serial, connected, op, arg, sent, warned>>

\* Mutation of Alicat_set_pid_wr: a gain is put into the result also when its
\* write reported an error.
Alicat_set_pid_wr_KeepsFailed(t) ==
    /\ kind = "modbus"
    /\ pc[t] = "set_pid_wr"
    /\ cli.obj
    /\ LET g == Head(loc[t].todo)
           rest == Tail(loc[t].todo)
           v == arg[t][g]
           results == Merge(loc[t].result, [k \in {g} |-> v])
       IN  \E o \in MbOutcomes(cli) :
              /\ cli' = MbAfter(cli, o)
              /\ dev' = IF o = "ok"
                        THEN [dev EXCEPT !.gains[GainIndex(g)] = v]
                        ELSE Faulted(dev, TRUE)
              /\ Send(t, [fc |-> 16, address |-> 999,
                          values |-> <<7 + GainIndex(g), v>>])
              /\ warned' = [warned EXCEPT ![t] = IF o = "err" THEN @ + 1 ELSE @]
              /\ Ghost(t, TRUE, o = "exc" \/ rest = <<>>)
              /\ IF o = "exc"
                 THEN /\ lock' = Free
                      /\ loc' = loc
                      /\ Done(t, "ConnectionException", NoVal)
                 ELSE IF rest = <<>>
                 THEN /\ lock' = Free
                      /\ loc' = loc
                      /\ Done(t, "ok", Merge([status |-> "ok"], results))
                 ELSE /\ lock' = lock
                      /\ loc' = [loc EXCEPT ![t].todo = rest,
                                            ![t].result = results]
                      /\ Goto(t, "set_pid_wr")
    /\ UNCHANGED <<cfgVars, serial, connected, op, arg>>

\* set_pid(), lines 337-346, 348-357, 359-368: the write for the next gain
\* given; after the last one the result is returned (line 370)
Alicat_set_pid_wr(t) ==
    /\ kind = "modbus"
    /\ pc[t] = "set_pid_wr"
    /\ LET g == Head(loc[t].todo)
           rest == Tail(loc[t].todo)
           v == arg[t][g]
       IN  IF ~cli.obj
           THEN /\ UNCHANGED <<cli, dev, sent, loc, warned>>
                /\ lock' = Free
                /\ Done(t, "AttributeError", NoVal)
                /\ Ghost(t, FALSE, TRUE)
           ELSE \E o \in MbOutcomes(cli) :
                  LET results == IF o = "ok"
                                 THEN Merge(loc[t].result, [k \in {g} |-> v])
                                 ELSE loc[t].result
                  IN  /\ cli' = MbAfter(cli, o)
                      /\ dev' = IF o = "ok"
                                THEN [dev EXCEPT !.gains[GainIndex(g)] = v]
                                ELSE Faulted(dev, TRUE)
                      /\ Send(t, [fc |-> 16, address |-> 999,
                                  values |-> <<7 + GainIndex(g), v>>])
                      /\ warned' = [warned EXCEPT ![t] =
                                       IF o = "err" THEN @ + 1 ELSE @]
                      /\ Ghost(t, TRUE, o = "exc" \/ rest = <<>>)
                      /\ IF o = "exc"
                         THEN /\ lock' = Free
                              /\ loc' = loc
                              /\ Done(t, "ConnectionException", NoVal)
                         ELSE IF rest = <<>>
                         THEN /\ lock' = Free
                              /\ loc' = loc
                              /\ Done(t, "ok", Merge([status |-> "ok"], results))
                         ELSE /\ lock' = lock
                              /\ loc' = [loc EXCEPT ![t].todo = rest,
                                                    ![t].result = results]
                              /\ Goto(t, "set_pid_wr")
    /\ UNCHANGED <<cfgVars, serial, connected, op, arg>>

\* dict.get(key): None when the key is absent
Get(d, k) == IF k \in DOMAIN d THEN d[k] ELSE PyNone
NoOp == [status |-> "no_op"]

\* write(), lines 381-391
Alicat_write(t) ==
    /\ kind = "modbus"
    /\ pc[t] = "write"
    /\ LET data == arg[t].data
       IN  IF "setpoint" \in DOMAIN data
           THEN /\ arg' = [arg EXCEPT ![t].flow_rate = data["setpoint"]]
                /\ Goto(t, "set_flow_rate")
                /\ Ghost(t, FALSE, FALSE)
           ELSE IF \E k \in {"P", "D", "I"} : k \in DOMAIN data
           THEN /\ arg' = [arg EXCEPT ![t].P = Get(data, "P"),
                                      ![t].D = Get(data, "D"),
                                      ![t].I = Get(data, "I")]
                /\ Goto(t, "set_pid")
                /\ Ghost(t, FALSE, FALSE)
           ELSE /\ arg' = arg
                /\ Done(t, "ok", NoOp)
                /\ Ghost(t, FALSE, TRUE)
    /\ UNCHANGED <<cfgVars, dev, cli, serial, connected, lock, op, loc, sent,
                   warned>>

\* ------------------------------------------------------------ AlicatSerial
\* The text of an int gain in a response, and int() of it (see int above).
GainText(g) ==
    CASE g = 50 -> "50" [] g = 120 -> "120" [] g = 7 -> "7" [] g = 10 -> "10"
      [] OTHER -> "0"
IsIntText(s) == s \in {"50", "120", "7", "10", "0"}
IntOf(s) ==
    CASE s = "50" -> 50 [] s = "120" -> 120 [] s = "7" -> 7 [] s = "10" -> 10
      [] OTHER -> 0

\* The device's answer to the query of gain k (R21, R22, R23), and the
\* answers of a line that misbehaves.
PidResponseFor(k) == <<"A", GainText(dev.gains[k])>>
BadPid == {<<"A">>, <<"A", "x">>, <<>>}

\* _command(), lines 71-85, as one exchange: how it can end when the device may
\* answer with any line of responses. Without a serial object it raises
\* RuntimeError("Not connected"); on a closed port pyserial raises; an open
\* port gives the line, a timeout (no line) or an I/O fault.
CommandResults(good, bad) ==
    IF ~serial.obj THEN {[st |-> "RuntimeError", resp |-> <<>>, fault |-> FALSE]}
    ELSE IF ~serial.open
    THEN {[st |-> "SerialException", resp |-> <<>>, fault |-> FALSE]}
    ELSE IF ~CanFail THEN {[st |-> "ok", resp |-> good, fault |-> FALSE]}
    ELSE {[st |-> IF r = <<>> THEN "TimeoutError" ELSE "ok", resp |-> r,
           fault |-> r # good] : r \in {good} \cup bad}
         \cup {[st |-> "SerialException", resp |-> <<>>, fault |-> TRUE]}

\* The bookkeeping of one _command(cmd) call by t.
CommandSent(t, cmd) ==
    IF serial.obj /\ serial.open THEN Send(t, cmd) ELSE sent' = sent

\* initialize(), lines 113-120
AlicatSerial_initialize(t) ==
    /\ kind = "serial"
    /\ pc[t] = "initialize"
    /\ IF dummy
       THEN /\ connected' = TRUE
            /\ lock' = lock
            /\ Done(t, "ok", NoVal)
            /\ Ghost(t, FALSE, TRUE)
       ELSE /\ lock = Free
            /\ lock' = t
            /\ connected' = connected
            /\ Goto(t, "initialize_open")
            /\ Ghost(t, FALSE, FALSE)
    /\ UNCHANGED <<cfgVars, dev, cli, serial, op, arg, loc, sent, warned>>

\* initialize(), lines 122-129: serial.Serial(...) opens the port or raises;
\* a raise leaves self._serial as it was and enters the handler (self.close())
AlicatSerial_initialize_open(t) ==
    /\ kind = "serial"
    /\ pc[t] = "initialize_open"
    /\ \E ok \in {TRUE} \cup {b \in {FALSE} : CanFail} :
          /\ serial' = IF ok THEN [obj |-> TRUE, open |-> TRUE] ELSE serial
          /\ dev' = Faulted(dev, ~ok)
          /\ Goto(t, IF ok THEN "initialize_probe" ELSE "close")
    /\ Ghost(t, TRUE, FALSE)
    /\ UNCHANGED <<cfgVars, cli, connected, lock, op, arg, loc, sent, warned>>

\* initialize(), line 131: self._command(""); any line at all passes
AlicatSerial_initialize_probe(t) ==
    /\ kind = "serial"
    /\ pc[t] = "initialize_probe"
    /\ \E res \in CommandResults(StatusLine(dev.sample), BadStatus) :
          /\ dev' = Faulted(dev, res.fault)
          /\ Goto(t, IF res.st = "ok" THEN "initialize_flag" ELSE "close")
    /\ CommandSent(t, [cmd |-> ""])
    /\ Ghost(t, serial.obj, FALSE)
    /\ UNCHANGED <<cfgVars, cli, serial, connected, lock, op, arg, loc, warned>>

\* initialize(), lines 132-133
AlicatSerial_initialize_flag(t) ==
    /\ kind = "serial"
    /\ pc[t] = "initialize_flag"
    /\ connected' = TRUE
    /\ lock' = Free
    /\ Done(t, "ok", NoVal)
    /\ Ghost(t, FALSE, TRUE)
    /\ UNCHANGED <<cfgVars, dev, cli, serial, op, arg, loc, sent, warned>>

\* close(), lines 140-144: self._serial.close() when there is a serial object,
\* whatever it raises swallowed
AlicatSerial_close(t) ==
    /\ kind = "serial"
    /\ pc[t] = "close"
    /\ IF serial.obj
       THEN /\ serial' = [serial EXCEPT !.open = FALSE]
            /\ Goto(t, "close_clear")
            /\ Ghost(t, TRUE, FALSE)
       ELSE /\ serial' = serial
            /\ Goto(t, "close_flag")
            /\ Ghost(t, FALSE, FALSE)
    /\ UNCHANGED <<cfgVars, dev, cli, connected, lock, op, arg, loc, sent, warned>>

\* close(), line 145: self._serial = None
AlicatSerial_close_clear(t) ==
    /\ kind = "serial"
    /\ pc[t] = "close_clear"
    /\ serial' = None
    /\ Goto(t, "close_flag")
    /\ Ghost(t, TRUE, FALSE)
    /\ UNCHANGED <<cfgVars, dev, cli, connected, lock, op, arg, loc, sent, warned>>

\* close(), line 146: self.connected = False; then back in the caller:
\* close() itself returns, shutdown() (lines 150-152) leaves its with block,
\* initialize()'s handler (lines 134-136) raises ConnectionError
\* Mutation of AlicatSerial_close_flag: shutdown() and the handler of
\* initialize() end without leaving their with block.
AlicatSerial_close_flag_KeepsLock(t) ==
    /\ kind = "serial"
    /\ pc[t] = "close_flag"
    /\ connected' = FALSE
    /\ lock' = lock
    /\ Done(t, IF op[t] = "initialize" THEN "ConnectionError" ELSE "ok", NoVal)
    /\ Ghost(t, FALSE, TRUE)
    /\ UNCHANGED <<cfgVars, dev, cli, serial, op, arg, loc, sent, warned>>
AlicatSerial_close_flag(t) ==
    /\ kind = "serial"
    /\ pc[t] = "close_flag"
    /\ connected' = FALSE
    /\ lock' = IF op[t] = "close" THEN lock ELSE Free
    /\ Done(t, IF op[t] = "initialize" THEN "ConnectionError" ELSE "ok", NoVal)
    /\ Ghost(t, FALSE, TRUE)
    /\ UNCHANGED <<cfgVars, dev, cli, serial, op, arg, loc, sent, warned>>

\* shutdown(), line 150
AlicatSerial_shutdown(t) ==
    /\ kind = "serial"
    /\ pc[t] = "shutdown"
    /\ lock = Free
    /\ lock' = t
    /\ Goto(t, "close")
    /\ Ghost(t, FALSE, FALSE)
    /\ UNCHANGED <<cfgVars, dev, cli, serial, connected, op, arg, loc, sent, warned>>

\* _parse_status_response(), lines 93-104: "ValueError" for fewer than seven
\* fields or a field float() rejects
\* Mutation of ParseOk: six fields are enough.
ParseOk_SixFields(parts) ==
    /\ Len(parts) >= 6
    /\ \A i \in 2..6 : IsNumber(parts[i])
ParseOk(parts) ==
    /\ Len(parts) >= 7
    /\ \A i \in 2..6 : IsNumber(parts[i])
_parse_status_response(parts) ==
    [pressure |-> float(parts[2]),
     temperature |-> float(parts[3]),
     volumetric_flow |-> float(parts[4]),
     mass_flow |-> float(parts[5]),
     setpoint |-> float(parts[6]),
     gas |-> IF Len(parts) > 6 THEN parts[7] ELSE "Unknown"]

\* read(), lines 164-175
AlicatSerial_read(t) ==
    /\ kind = "serial"
    /\ pc[t] = "read"
    /\ IF dummy
       THEN /\ lock' = lock
            /\ Done(t, "ok", AlicatSerialDummyReading)
            /\ Ghost(t, FALSE, TRUE)
       ELSE /\ lock = Free
            /\ lock' = t
            /\ Goto(t, "read_cmd")
            /\ Ghost(t, FALSE, FALSE)
    /\ UNCHANGED <<cfgVars, dev, cli, serial, connected, op, arg, loc, sent, warned>>

\* read(), lines 177-178 and the handler, lines 196-199: the status command and
\* its parse; any failure sets connected to False and is raised again
AlicatSerial_read_cmd(t) ==
    /\ kind = "serial"
    /\ pc[t] = "read_cmd"
    /\ \E res \in CommandResults(StatusLine(dev.sample), BadStatus) :
          LET st == IF res.st # "ok" THEN res.st
                    ELSE IF ParseOk(res.resp) THEN "ok" ELSE "ValueError"
          IN  /\ dev' = IF res.st = "ok" THEN Sampled(dev, res.fault)
                         ELSE Faulted(dev, res.fault)
              /\ IF st = "ok"
                 THEN /\ loc' = [loc EXCEPT ![t].result =
                                    _parse_status_response(res.resp),
                                               ![t].response = res.resp]
                      /\ connected' = connected
                      /\ lock' = lock
                      /\ Goto(t, "read_build")
                      /\ Ghost(t, TRUE, FALSE)
                 ELSE /\ loc' = [loc EXCEPT ![t].response = res.resp]
                      /\ connected' = FALSE
                      /\ lock' = Free
                      /\ Done(t, st, NoVal)
                      /\ Ghost(t, serial.obj, TRUE)
    /\ CommandSent(t, [cmd |-> ""])
    /\ UNCHANGED <<cfgVars, cli, serial, op, arg, warned>>

\* Mutation of AlicatSerialReading: the pressure is a remembered 8.92.
AlicatSerialReading_Remembered(data, conn) ==
    [connected |-> conn,
     setpoint |-> data.setpoint,
     pressure |-> 892000,
     temperature |-> data.temperature,
     volumetric_flow |-> data.volumetric_flow,
     mass_flow |-> data.mass_flow,
     valve_drive |-> 0]
\* read(), lines 180-188
AlicatSerialReading(data, conn) ==
    [connected |-> conn,
     setpoint |-> data.setpoint,
     pressure |-> data.pressure,
     temperature |-> data.temperature,
     volumetric_flow |-> data.volumetric_flow,
     mass_flow |-> data.mass_flow,
     valve_drive |-> 0]

\* read(), lines 180-194: the result is built; without PID it is returned
AlicatSerial_read_build(t) ==
    /\ kind = "serial"
    /\ pc[t] = "read_build"
    /\ LET result == AlicatSerialReading(loc[t].result, connected)
       IN  IF arg[t].include_pid
           THEN /\ loc' = [loc EXCEPT ![t].result = result]
                /\ lock' = lock
                /\ Goto(t, "read_pid_cmd")
                /\ Ghost(t, FALSE, FALSE)
           ELSE /\ loc' = loc
                /\ lock' = Free
                /\ Done(t, "ok", result)
                /\ Ghost(t, FALSE, TRUE)
    /\ UNCHANGED <<cfgVars, dev, cli, serial, connected, op, arg, sent, warned>>

\* read_pid(), lines 220-224
AlicatSerial_read_pid(t) ==
    /\ kind = "serial"
    /\ pc[t] = "read_pid"
    /\ IF dummy
       THEN /\ lock' = lock
            /\ Done(t, "ok", DummyPid)
            /\ Ghost(t, FALSE, TRUE)
       ELSE /\ lock = Free
            /\ lock' = t
            /\ Goto(t, "read_pid_cmd")
            /\ Ghost(t, FALSE, FALSE)
    /\ UNCHANGED <<cfgVars, dev, cli, serial, connected, op, arg, loc, sent, warned>>

\* _read_pid_unlocked(), lines 209-213: the dict built from the three responses;
\* int() of a second field that is no integer raises (ValueError)
PidParseOk(resps) ==
    \A i \in 1..3 : Len(resps[i]) > 1 => IsIntText(resps[i][2])
\* Mutation of PidOf: the D gain is taken from the I response.
PidOf_Crossed(resps) ==
    LET g(i) == IF Len(resps[i]) > 1 THEN IntOf(resps[i][2]) ELSE 0
    IN  [P |-> g(1), D |-> g(3), I |-> g(3)]
PidOf(resps) ==
    LET g(i) == IF Len(resps[i]) > 1 THEN IntOf(resps[i][2]) ELSE 0
    IN  [P |-> g(1), D |-> g(2), I |-> g(3)]
ZeroPid == [P |-> 0, D |-> 0, I |-> 0]

\* _read_pid_unlocked(), lines 203-216: the next of the queries R21, R22, R23;
\* any exception of any of them, or of building the dict, gives ZeroPid
AlicatSerial_read_pid_cmd(t) ==
    /\ kind = "serial"
    /\ pc[t] = "read_pid_cmd"
    /\ LET k == Len(loc[t].gains) + 1
       IN  /\ \E res \in CommandResults(PidResponseFor(k), BadPid) :
                LET resps == Append(loc[t].gains, res.resp)
                IN  /\ dev' = Faulted(dev, res.fault)
                    /\ IF res.st = "ok" /\ k < 3
                       THEN /\ loc' = [loc EXCEPT ![t].gains = resps]
                            /\ lock' = lock
                            /\ Goto(t, "read_pid_cmd")
                            /\ Ghost(t, TRUE, FALSE)
                       ELSE /\ loc' = loc
                            /\ lock' = Free
                            /\ Done(t, "ok", PidReturn(t,
                                   IF res.st = "ok" /\ PidParseOk(resps)
                                   THEN PidOf(resps) ELSE ZeroPid))
                            /\ Ghost(t, serial.obj, TRUE)
           /\ CommandSent(t, [cmd |-> "R", reg |-> 20 + k])
    /\ UNCHANGED <<cfgVars, cli, serial, connected, op, arg, warned>>

\* The head of set_flow_rate, set_pressure, set_gas: the dummy return or the
\* lock (lines 228-232, 243-247, 258-262)
SetterEntry(t, ack, next) ==
    IF dummy
    THEN /\ lock' = lock
         /\ Done(t, "ok", ack)
         /\ Ghost(t, FALSE, TRUE)
    ELSE /\ lock = Free
         /\ lock' = t
         /\ Goto(t, next)
         /\ Ghost(t, FALSE, FALSE)

\* Their command: the acknowledgement is returned, a failure raised again
\* (lines 233-239, 248-254, 263-274)
\* Mutation of SetterCommand: a failure is swallowed, the acknowledgement
\* returned all the same.
SetterCommand_Swallows(t, cmd, ack) ==
    /\ \E res \in CommandResults(StatusLine(dev.sample), BadAck) :
          /\ dev' = Faulted(dev, res.fault)
          /\ Done(t, "ok", ack)
    /\ lock' = Free
    /\ CommandSent(t, cmd)
    /\ Ghost(t, serial.obj, TRUE)
SetterCommand(t, cmd, ack) ==
    /\ \E res \in CommandResults(StatusLine(dev.sample), BadAck) :
          /\ dev' = Faulted(dev, res.fault)
          /\ Done(t, res.st, IF res.st = "ok" THEN ack ELSE NoVal)
    /\ lock' = Free
    /\ CommandSent(t, cmd)
    /\ Ghost(t, serial.obj, TRUE)

AlicatSerial_set_flow_rate(t) ==
    /\ kind = "serial"
    /\ pc[t] = "set_flow_rate"
    /\ SetterEntry(t, [status |-> "ok", setpoint |-> arg[t].flow_rate],
                   "set_flow_rate_cmd")
    /\ UNCHANGED <<cfgVars, dev, cli, serial, connected, op, arg, loc, sent, warned>>

AlicatSerial_set_flow_rate_cmd(t) ==
    /\ kind = "serial"
    /\ pc[t] = "set_flow_rate_cmd"
    /\ SetterCommand(t, [cmd |-> "S", value |-> Fmt4(arg[t].flow_rate)],
                     [status |-> "ok", setpoint |-> arg[t].flow_rate])
    /\ UNCHANGED <<cfgVars, cli, serial, connected, op, arg, loc, warned>>

AlicatSerial_set_pressure(t) ==
    /\ kind = "serial"
    /\ pc[t] = "set_pressure"
    /\ SetterEntry(t, [status |-> "ok", pressure |-> arg[t].pressure],
                   "set_pressure_cmd")
    /\ UNCHANGED <<cfgVars, dev, cli, serial, connected, op, arg, loc, sent, warned>>

AlicatSerial_set_pressure_cmd(t) ==
    /\ kind = "serial"
    /\ pc[t] = "set_pressure_cmd"
    /\ SetterCommand(t, [cmd |-> "P", value |-> Fmt4(arg[t].pressure)],
                     [status |-> "ok", pressure |-> arg[t].pressure])
    /\ UNCHANGED <<cfgVars, cli, serial, connected, op, arg, loc, warned>>

AlicatSerial_set_gas(t) ==
    /\ kind = "serial"
    /\ pc[t] = "set_gas"
    /\ SetterEntry(t, [status |-> "ok", gas |-> arg[t].gas], "set_gas_cmd")
    /\ UNCHANGED <<cfgVars, dev, cli, serial, connected, op, arg, loc, sent, warned>>

AlicatSerial_set_gas_cmd(t) ==
    /\ kind = "serial"
    /\ pc[t] = "set_gas_cmd"
    /\ SetterCommand(t, [cmd |-> "G", value |-> GAS_TABLE(arg[t].gas)],
                     [status |-> "ok", gas |-> arg[t].gas])
    /\ UNCHANGED <<cfgVars, cli, serial, connected, op, arg, loc, warned>>

\* set_pid(), lines 278-283 (and line 300 when no gain was given)
AlicatSerial_set_pid(t) ==
    /\ kind = "serial"
    /\ pc[t] = "set_pid"
    /\ IF dummy
       THEN /\ lock' = lock
            /\ loc' = loc
            /\ Done(t, "ok", [status |-> "ok", P |-> arg[t].P, D |-> arg[t].D,
                              I |-> arg[t].I])
            /\ Ghost(t, FALSE, TRUE)
       ELSE /\ lock = Free
            /\ IF Provided(arg[t]) = <<>>
               THEN /\ lock' = Free
                    /\ loc' = loc
                    /\ Done(t, "ok", [status |-> "ok"])
                    /\ Ghost(t, FALSE, TRUE)
               ELSE /\ lock' = t
                    /\ loc' = [loc EXCEPT ![t].todo = Provided(arg[t]),
                                          ![t].result = [status |-> "ok"]]
                    /\ Goto(t, "set_pid_cmd")
                    /\ Ghost(t, FALSE, FALSE)
    /\ UNCHANGED <<cfgVars, dev, cli, serial, connected, op, arg, sent, warned>>

\* Mutation of AlicatSerial_set_pid_cmd: a failed command is skipped and the
\* commands of the later gains are still sent.
AlicatSerial_set_pid_cmd_GoesOn(t) ==
    /\ kind = "serial"
    /\ pc[t] = "set_pid_cmd"
    /\ LET g == Head(loc[t].todo)
           rest == Tail(loc[t].todo)
           v == arg[t][g]
       IN  /\ \E res \in CommandResults(StatusLine(dev.sample), BadAck) :
                LET results == IF res.st = "ok"
                               THEN Merge(loc[t].result, [k \in {g} |-> v])
                               ELSE loc[t].result
                IN  /\ dev' = IF res.st = "ok"
                              THEN [dev EXCEPT !.gains[GainIndex(g)] = v]
                              ELSE Faulted(dev, res.fault)
                    /\ IF rest = <<>>
                       THEN /\ lock' = Free
                            /\ loc' = loc
                            /\ Done(t, "ok", results)
                            /\ Ghost(t, serial.obj, TRUE)
                       ELSE /\ lock' = lock
                            /\ loc' = [loc EXCEPT ![t].todo = rest,
                                                  ![t].result = results]
                            /\ Goto(t, "set_pid_cmd")
                            /\ Ghost(t, serial.obj, FALSE)
           /\ CommandSent(t, [cmd |-> "W", reg |-> 20 + GainIndex(g), value |-> v])
    /\ UNCHANGED <<cfgVars, cli, serial, connected, op, arg, warned>>

\* set_pid(), lines 285-304: the command W21, W22 or W23 of the next gain given;
\* a failure is raised again, after the last one the results are returned
AlicatSerial_set_pid_cmd(t) ==
    /\ kind = "serial"
    /\ pc[t] = "set_pid_cmd"
    /\ LET g == Head(loc[t].todo)
           rest == Tail(loc[t].todo)
           v == arg[t][g]
       IN  /\ \E res \in CommandResults(StatusLine(dev.sample), BadAck) :
                LET results == Merge(loc[t].result, [k \in {g} |-> v])
                IN  /\ dev' = IF res.st = "ok"
                              THEN [dev EXCEPT !.gains[GainIndex(g)] = v]
                              ELSE Faulted(dev, res.fault)
                    /\ IF res.st # "ok"
                       THEN /\ lock' = Free
                            /\ loc' = loc
                            /\ Done(t, res.st, NoVal)
                            /\ Ghost(t, serial.obj, TRUE)
                       ELSE IF rest = <<>>
                       THEN /\ lock' = Free
                            /\ loc' = loc
                            /\ Done(t, "ok", results)
                            /\ Ghost(t, TRUE, TRUE)
                       ELSE /\ lock' = lock
                            /\ loc' = [loc EXCEPT ![t].todo = rest,
                                                  ![t].result = results]
                            /\ Goto(t, "set_pid_cmd")
                            /\ Ghost(t, TRUE, FALSE)
           /\ CommandSent(t, [cmd |-> "W", reg |-> 20 + GainIndex(g), value |-> v])
    /\ UNCHANGED <<cfgVars, cli, serial, connected, op, arg, warned>>

\* Mutation of AlicatSerial_write: "pressure" is looked for before "setpoint".
AlicatSerial_write_PressureFirst(t) ==
    /\ kind = "serial"
    /\ pc[t] = "write"
    /\ LET data == arg[t].data
       IN  IF "pressure" \in DOMAIN data
           THEN /\ arg' = [arg EXCEPT ![t].pressure = data["pressure"]]
                /\ Goto(t, "set_pressure")
                /\ Ghost(t, FALSE, FALSE)
           ELSE IF "setpoint" \in DOMAIN data
           THEN /\ arg' = [arg EXCEPT ![t].flow_rate = data["setpoint"]]
                /\ Goto(t, "set_flow_rate")
                /\ Ghost(t, FALSE, FALSE)
           ELSE IF "gas" \in DOMAIN data
           THEN /\ arg' = [arg EXCEPT ![t].gas = data["gas"]]
                /\ Goto(t, "set_gas")
                /\ Ghost(t, FALSE, FALSE)
           ELSE IF \E k \in {"P", "D", "I"} : k \in DOMAIN data
           THEN /\ arg' = [arg EXCEPT ![t].P = Get(data, "P"),
                                      ![t].D = Get(data, "D"),
                                      ![t].I = Get(data, "I")]
                /\ Goto(t, "set_pid")
                /\ Ghost(t, FALSE, FALSE)
           ELSE /\ arg' = arg
                /\ Done(t, "ok", NoOp)
                /\ Ghost(t, FALSE, TRUE)
    /\ UNCHANGED <<cfgVars, dev, cli, serial, connected, lock, op, loc, sent,
                   warned>>

\* write(), lines 312-328
AlicatSerial_write(t) ==
    /\ kind = "serial"
    /\ pc[t] = "write"
    /\ LET data == arg[t].data
       IN  IF "setpoint" \in DOMAIN data
           THEN /\ arg' = [arg EXCEPT ![t].flow_rate = data["setpoint"]]
                /\ Goto(t, "set_flow_rate")
                /\ Ghost(t, FALSE, FALSE)
           ELSE IF "pressure" \in DOMAIN data
           THEN /\ arg' = [arg EXCEPT ![t].pressure = data["pressure"]]
                /\ Goto(t, "set_pressure")
                /\ Ghost(t, FALSE, FALSE)
           ELSE IF "gas" \in DOMAIN data
           THEN /\ arg' = [arg EXCEPT ![t].gas = data["gas"]]
                /\ Goto(t, "set_gas")
                /\ Ghost(t, FALSE, FALSE)
           ELSE IF \E k \in {"P", "D", "I"} : k \in DOMAIN data
           THEN /\ arg' = [arg EXCEPT ![t].P = Get(data, "P"),
                                      ![t].D = Get(data, "D"),
                                      ![t].I = Get(data, "I")]
                /\ Goto(t, "set_pid")
                /\ Ghost(t, FALSE, FALSE)
           ELSE /\ arg' = arg
                /\ Done(t, "ok", NoOp)
                /\ Ghost(t, FALSE, TRUE)
    /\ UNCHANGED <<cfgVars, dev, cli, serial, connected, lock, op, loc, sent,
                   warned>>

\* ------------------------------------------------------------ specification
Run(t) ==
    \/ Return(t)
    \/ Alicat_initialize(t) \/ Alicat_initialize_connect(t)
    \/ Alicat_initialize_flag(t)
    \/ Alicat_close(t) \/ Alicat_close_call(t) \/ Alicat_close_clear(t)
    \/ Alicat_close_flag(t)
    \/ Alicat_read_pair(t) \/ Alicat_read_pair_io(t)
    \/ Alicat_read(t) \/ Alicat_read_io(t) \/ Alicat_read_build(t)
    \/ Alicat_read_pid(t) \/ Alicat_read_pid_sel(t) \/ Alicat_read_pid_rd(t)
    \/ Alicat_set_flow_rate(t) \/ Alicat_write_holding(t)
    \/ Alicat_write_holding_io(t)
    \/ Alicat_set_pid(t) \/ Alicat_set_pid_wr(t)
    \/ Alicat_write(t)
    \/ AlicatSerial_initialize(t) \/ AlicatSerial_initialize_open(t)
    \/ AlicatSerial_initialize_probe(t) \/ AlicatSerial_initialize_flag(t)
    \/ AlicatSerial_close(t) \/ AlicatSerial_close_clear(t)
    \/ AlicatSerial_close_flag(t) \/ AlicatSerial_shutdown(t)
    \/ AlicatSerial_read(t) \/ AlicatSerial_read_cmd(t)
    \/ AlicatSerial_read_build(t)
    \/ AlicatSerial_read_pid(t) \/ AlicatSerial_read_pid_cmd(t)
    \/ AlicatSerial_set_flow_rate(t) \/ AlicatSerial_set_flow_rate_cmd(t)
    \/ AlicatSerial_set_pressure(t) \/ AlicatSerial_set_pressure_cmd(t)
    \/ AlicatSerial_set_gas(t) \/ AlicatSerial_set_gas_cmd(t)
    \/ AlicatSerial_set_pid(t) \/ AlicatSerial_set_pid_cmd(t)
    \/ AlicatSerial_write(t)

\* Any interleaving of the steps of concurrent callers.
Call(t) == CallWith(t, [o \in Ops(kind) |-> ConcArgs(o)])
Next == \E t \in Threads : Call(t) \/ Run(t)
Spec == Init /\ [][Next]_vars

\* One call at a time: a call starts only when no other is in flight.
CallSeq(t) ==
    /\ \A u \in Threads : pc[u] = "idle"
    /\ CallWith(t, [o \in Ops(kind) |-> Args(o)])
NextSeq == \E t \in Threads : CallSeq(t) \/ Run(t)
SpecSeq == Init /\ [][NextSeq]_vars

\* ------------------------------------------------------------ the codec alone
\* The floats handed to the codec: both signs; zero and subnormal (exp 0), the
\* smallest and largest normal exponents, 1.0's, 22.0's and 1000.0's, and
\* infinity and NaN (exp 255); fractions with bits in every byte.
CodecSigns == {0, 1}
CodecExps == {0, 1, 127, 131, 136, 254, 255}
CodecFracs == {0, 1, 255, 256, 65535, 65536, 964690, 3145728, 4194304, 8388607}
CodecFloats ==
    {Single(2200000)} \cup
    [sign : CodecSigns, exp : CodecExps, frac : CodecFracs]

\* No handle is in use; a float is about to be encoded.
InitCodec ==
    /\ kind = "modbus"
    /\ dummy = FALSE
    /\ Constructed
    /\ \E v \in CodecFloats : codec = [NoCodec EXCEPT !.at = "val", !.val = v]
    /\ port = NoPort
    /\ test = NoTest

\* hi, lo = _float_to_regs(val)
Codec_float_to_regs ==
    /\ codec.at = "val"
    /\ codec' = [codec EXCEPT !.at = "regs", !.regs = _float_to_regs(codec.val)]
    /\ UNCHANGED <<kind, dummy, cli, serial, connected, lock, pc, op, arg, loc,
                   ret, sent, warned, touched, foreign, io, dev, port, test>>

\* _regs_to_float(hi, lo)
Codec_regs_to_float ==
    /\ codec.at = "regs"
    /\ codec' = [codec EXCEPT !.at = "out",
                               !.out = _regs_to_float(codec.regs[1], codec.regs[2])]
    /\ UNCHANGED <<kind, dummy, cli, serial, connected, lock, pc, op, arg, loc,
                   ret, sent, warned, touched, foreign, io, dev, port, test>>

NextCodec == Codec_float_to_regs \/ Codec_regs_to_float
SpecCodec == InitCodec /\ [][NextCodec]_vars

\* ------------------------------------------------------------ _command alone
\* AlicatSerial._command(cmd), lines 70-85, one statement per step, on a handle
\* that has its port or has none; meanwhile lines arrive in the port's input
\* buffer.  A line is its text after .strip() ("" for a bare carriage return)
\* and when it arrived: before the buffer was cleared, between the clearing and
\* the write, or after the write.
CommandBodies == {"", "S22.0000", "R21"}
LineTexts == {"A 8.920 306.00 21.00 23.00 22.0000 Air", "A 50", ""}
Did(step) == \E i \in 1..Len(port.steps) : port.steps[i] = step
Arriving ==
    IF ~Did("reset_input_buffer") THEN "before_clear"
    ELSE IF ~Did("write") THEN "before_write" ELSE "after_write"
PortStep(step) == [port EXCEPT !.steps = Append(@, step)]

InitCommand ==
    /\ kind = "serial"
    /\ dummy = FALSE
    /\ cli = None
    /\ serial \in {None, [obj |-> TRUE, open |-> TRUE]}
    /\ connected = serial.obj
    /\ lock = Free
    /\ pc = [t \in Threads |-> "idle"]
    /\ op = [t \in Threads |-> "none"]
    /\ arg = [t \in Threads |-> NoArg]
    /\ loc = [t \in Threads |-> NoLoc]
    /\ ret = [t \in Threads |-> NoRet]
    /\ sent = [t \in Threads |-> <<>>]
    /\ warned = [t \in Threads |-> 0]
    /\ touched = [t \in Threads |-> FALSE]
    /\ foreign = [t \in Threads |-> FALSE]
    /\ io = serial.obj
    /\ dev = [sel |-> 0, gains |-> <<50, 120, 7>>, faults |-> 0, sample |-> 0]
    /\ codec = NoCodec
    /\ \E c \in CommandBodies : port = [NoPort EXCEPT !.at = "call", !.cmd = c]
    /\ test = NoTest

PortOnly ==
    UNCHANGED <<kind, dummy, cli, serial, connected, lock, pc, op, arg, loc, ret,
                sent, warned, touched, foreign, io, dev, codec, test>>

\* the device or the line puts a line into the input buffer of the open port
Port_arrive ==
    /\ serial.obj /\ serial.open
    /\ port.at \in {"call", "reset_input_buffer", "write", "read_until"}
    /\ Len(port.inbuf) < MaxLines
    /\ \E x \in LineTexts :
          port' = [port EXCEPT !.inbuf = Append(@, [text |-> x, when |-> Arriving])]
    /\ PortOnly

\* lines 70-71: if self._serial is None: raise RuntimeError("Not connected")
Command_guard ==
    /\ port.at = "call"
    /\ port' = IF serial = None
               THEN [port EXCEPT !.at = "done", !.st = "RuntimeError"]
               ELSE [port EXCEPT !.at = "reset_input_buffer"]
    /\ PortOnly

\* Mutation of Command_reset_input_buffer: the buffer keeps what it holds.
Command_reset_input_buffer_Keeps ==
    /\ port.at = "reset_input_buffer"
    /\ port' = [PortStep("reset_input_buffer") EXCEPT !.at = "write"]
    /\ PortOnly
\* line 74: self._serial.reset_input_buffer()
Command_reset_input_buffer ==
    /\ port.at = "reset_input_buffer"
    /\ port' = [PortStep("reset_input_buffer") EXCEPT !.at = "write", !.inbuf = <<>>]
    /\ PortOnly

\* lines 73 and 75: self._serial.write(f"{self._unit_id}{cmd}\r".encode("ascii"))
Command_write ==
    /\ port.at = "write"
    /\ port' = [PortStep("write") EXCEPT !.at = "read_until",
                                         !.out = <<"A", port.cmd, "\r">>]
    /\ PortOnly

\* lines 78-85: read_until(b"\r") gives the first line of the buffer, or
\* nothing when the timeout passes with the buffer empty; an empty response
\* raises TimeoutError, any other is returned
Command_read_until ==
    /\ port.at = "read_until"
    /\ LET line == IF port.inbuf = <<>> THEN [text |-> "", when |-> "never"]
                   ELSE Head(port.inbuf)
           rest == IF port.inbuf = <<>> THEN <<>> ELSE Tail(port.inbuf)
       IN  port' = [PortStep("read_until") EXCEPT
                       !.at = "done",
                       !.inbuf = rest,
                       !.st = IF line.text = "" THEN "TimeoutError" ELSE "ok",
                       !.response = IF line.text = "" THEN NoPort.response ELSE line]
    /\ PortOnly

NextCommand ==
    \/ Port_arrive
    \/ Command_guard
    \/ Command_reset_input_buffer
    \/ Command_write
    \/ Command_read_until
SpecCommand == InitCommand /\ [][NextCommand]_vars

\* ------------------------------------------------- the test sequencer
\* LiquidLineTest of liquid_line_test.py, one statement of connect(),
\* disconnect() and run() at a time. It is single-threaded and owns its
\* devices, so a call into a driver is one step with the call's outcome: the
\* flow controller is [obj, connected, closed] (closed: close() was called on
\* it), the power supply is the RigolDP2301's [obj, instrument, is_connected].
InitTest ==
    /\ kind \in Kinds
    /\ dummy = FALSE
    /\ Constructed
    /\ codec = NoCodec
    /\ port = NoPort
    /\ test = NoTest

TestOnly ==
    UNCHANGED <<kind, dummy, cli, serial, connected, lock, pc, op, arg, loc, ret,
                sent, warned, touched, foreign, io, dev, codec, port>>

Error(type) == [type |-> type, from |-> test.at]

\* an exception raised inside the try block of connect() or run(): control
\* goes to the except clause (lines 64-66) or the finally clause (lines
\* 107-108), and both call self.disconnect()
TryRaises(x, e) == [x EXCEPT !.cause = e, !.exc = e, !.at = "disconnect"]

\* an exception raised while an except or finally clause runs leaves the call
Raises(x, e) ==
    [x EXCEPT !.exc = e, !.at = "done", !.out = [st |-> "raised", err |-> e]]

\* RigolDP2301.write() and query(), lines 90-97 and 112-120: refused when not
\* connected, else the VISA call goes through or fails
RigolReady == test.rigol.is_connected /\ test.rigol.instrument

\* the test program calls connect() or run(flow_rates, voltages)
Test_call ==
    /\ test.at \in {"idle", "done"}
    /\ test.calls < MaxCalls
    /\ \E fn \in {"connect", "run"}, nf \in 0..MaxFlows, nv \in 0..MaxVoltages :
        /\ fn = "connect" => nf = 0 /\ nv = 0
        /\ test' = [test EXCEPT !.at = fn, !.fn = fn, !.calls = @ + 1,
                                !.flow_rates = nf, !.voltages = nv,
                                !.i = 0, !.j = 0, !.data = 0,
                                !.cause = NoError, !.exc = NoError,
                                !.out = [st |-> "none", err |-> NoError]]
    /\ TestOnly

\* connect(), lines 52-55: self.alicat = Alicat(...) or AlicatSerial(...)
Test_connect_alicat ==
    /\ test.at = "connect"
    /\ test' = [test EXCEPT !.at = "connect_initialize",
                            !.alicat = [obj |-> TRUE, connected |-> FALSE,
                                        closed |-> FALSE]]
    /\ TestOnly

\* line 56: self.alicat.initialize()
Test_connect_initialize ==
    /\ test.at = "connect_initialize"
    /\ \E ok \in BOOLEAN :
        test' = IF ok
                THEN [test EXCEPT !.at = "connect_rigol",
                                  !.alicat.connected = TRUE]
                ELSE TryRaises(test, Error("ConnectionError"))
    /\ TestOnly

\* line 58: self.rigol = RigolDP2301(...), rigol_dp2031.py lines 34-36
Test_connect_rigol ==
    /\ test.at = "connect_rigol"
    /\ test' = [test EXCEPT !.at = "connect_rigol_connect",
                            !.rigol = [obj |-> TRUE, instrument |-> FALSE,
                                       is_connected |-> FALSE]]
    /\ TestOnly

\* line 59: self.rigol.connect(), rigol_dp2031.py lines 48-67: on any failure
\* the instrument is closed and forgotten and RigolDP2301Error is raised
Test_connect_rigol_connect ==
    /\ test.at = "connect_rigol_connect"
    /\ \E ok \in BOOLEAN :
        test' = IF ok
                THEN [test EXCEPT !.at = "connect_set_voltage",
                                  !.rigol.instrument = TRUE,
                                  !.rigol.is_connected = TRUE]
                ELSE TryRaises([test EXCEPT !.rigol.instrument = FALSE,
                                            !.rigol.is_connected = FALSE],
                               Error("RigolDP2301Error"))
    /\ TestOnly

\* line 60: self.rigol.set_voltage(cfg.rigol_channel, 0.0)
Test_connect_set_voltage ==
    /\ test.at = "connect_set_voltage"
    /\ \E ok \in BOOLEAN :
        test' = IF RigolReady /\ ok
                THEN [test EXCEPT !.at = "connect_set_current_limit"]
                ELSE TryRaises(test, Error("RigolDP2301Error"))
    /\ TestOnly

\* line 61: self.rigol.set_current_limit(...)
Test_connect_set_current_limit ==
    /\ test.at = "connect_set_current_limit"
    /\ \E ok \in BOOLEAN :
        test' = IF RigolReady /\ ok
                THEN [test EXCEPT !.at = "connect_lakeshore"]
                ELSE TryRaises(test, Error("RigolDP2301Error"))
    /\ TestOnly

\* line 63: self.lakeshore = Model336(...), which opens the connection
Test_connect_lakeshore ==
    /\ test.at = "connect_lakeshore"
    /\ \E ok \in BOOLEAN :
        test' = IF ok
                THEN [test EXCEPT !.lakeshore = TRUE, !.at = "done",
                                  !.out = [st |-> "ok", err |-> NoError]]
                ELSE TryRaises(test, Error("Exception"))
    /\ TestOnly

\* line 67: raise, once self.disconnect() has returned
Test_connect_raise ==
    /\ test.at = "connect_raise"
    /\ test' = Raises(test, test.exc)
    /\ TestOnly

\* disconnect(), line 71: if self.rigol:
Test_disconnect ==
    /\ test.at = "disconnect"
    /\ test' = [test EXCEPT !.at = IF test.rigol.obj
                                   THEN "disconnect_set_voltage"
                                   ELSE "disconnect_alicat"]
    /\ TestOnly

\* line 72: self.rigol.set_voltage(cfg.rigol_channel, 0.0)
Test_disconnect_set_voltage ==
    /\ test.at = "disconnect_set_voltage"
    /\ \E ok \in BOOLEAN :
        test' = IF RigolReady /\ ok
                THEN [test EXCEPT !.at = "disconnect_enable_output"]
                ELSE Raises(test, Error("RigolDP2301Error"))
    /\ TestOnly

\* line 73: self.rigol.enable_output(cfg.rigol_channel, False)
Test_disconnect_enable_output ==
    /\ test.at = "disconnect_enable_output"
    /\ \E ok \in BOOLEAN :
        test' = IF RigolReady /\ ok
                THEN [test EXCEPT !.at = "disconnect_rigol"]
                ELSE Raises(test, Error("RigolDP2301Error"))
    /\ TestOnly

\* line 74: self.rigol.disconnect(), rigol_dp2031.py lines 71-78
Test_disconnect_rigol ==
    /\ test.at = "disconnect_rigol"
    /\ test' = [test EXCEPT !.at = "disconnect_alicat",
                            !.rigol.is_connected =
                                IF test.rigol.instrument THEN FALSE ELSE @,
                            !.rigol.instrument = FALSE]
    /\ TestOnly

\* lines 75-76: if self.alicat: self.alicat.close(); then back in the caller
Test_disconnect_alicat ==
    /\ test.at = "disconnect_alicat"
    /\ test' = [test EXCEPT !.at = IF test.fn = "connect" THEN "connect_raise"
                                   ELSE "run_end",
                            !.alicat = IF test.alicat.obj
                                       THEN [obj |-> TRUE, connected |-> FALSE,
                                             closed |-> TRUE]
                                       ELSE @]
    /\ TestOnly

\* run(), line 83: self.rigol.enable_output(cfg.rigol_channel, True)
Test_run ==
    /\ test.at = "run"
    /\ \E ok \in BOOLEAN :
        test' = IF ~test.rigol.obj
                THEN TryRaises(test, Error("AttributeError"))
                ELSE IF RigolReady /\ ok
                THEN [test EXCEPT !.at = "run_flow"]
                ELSE TryRaises(test, Error("RigolDP2301Error"))
    /\ TestOnly

\* lines 85-88: for flow in flow_rates: self.alicat.set_flow_rate(flow)
Test_run_flow ==
    /\ test.at = "run_flow"
    /\ \E ok \in BOOLEAN :
        test' = IF test.i = test.flow_rates
                THEN [test EXCEPT !.at = "disconnect"]
                ELSE IF ~test.alicat.obj
                THEN TryRaises(test, Error("AttributeError"))
                ELSE IF ok
                THEN [test EXCEPT !.at = "run_voltage", !.j = 0]
                ELSE TryRaises(test, Error("IOError"))
    /\ TestOnly

\* lines 90-93: for voltage in voltages: self.rigol.set_voltage(...)
Test_run_voltage ==
    /\ test.at = "run_voltage"
    /\ \E ok \in BOOLEAN :
        test' = IF test.j = test.voltages
                THEN [test EXCEPT !.at = "run_flow", !.i = @ + 1]
                ELSE IF RigolReady /\ ok
                THEN [test EXCEPT !.at = "run_measure"]
                ELSE TryRaises(test, Error("RigolDP2301Error"))
    /\ TestOnly

\* line 95: _, current, power = self.rigol.read_measurements(...)
Test_run_measure ==
    /\ test.at = "run_measure"
    /\ \E ok \in BOOLEAN :
        test' = IF RigolReady /\ ok
                THEN [test EXCEPT !.at = "run_temps"]
                ELSE TryRaises(test, Error("RigolDP2301Error"))
    /\ TestOnly

\* lines 96-104: temps = self.lakeshore.get_all_kelvin_reading();
\* data.append({...})
Test_run_temps ==
    /\ test.at = "run_temps"
    /\ \E ok \in BOOLEAN :
        test' = IF ~test.lakeshore
                THEN TryRaises(test, Error("AttributeError"))
                ELSE IF ok
                THEN [test EXCEPT !.at = "run_voltage", !.j = @ + 1,
                                  !.data = @ + 1]
                ELSE TryRaises(test, Error("Exception"))
    /\ TestOnly

\* the end of the finally clause, line 108: the pending exception, if any,
\* goes on; else lines 110-112: self.df = pd.DataFrame(data), to_csv, return
Test_run_end ==
    /\ test.at = "run_end"
    /\ test' = IF test.exc # NoError THEN Raises(test, test.exc)
               ELSE [test EXCEPT !.at = "done",
                                 !.out = [st |-> "ok", err |-> NoError]]
    /\ TestOnly

NextTest ==
    \/ Test_call
    \/ Test_connect_alicat
    \/ Test_connect_initialize
    \/ Test_connect_rigol
    \/ Test_connect_rigol_connect
    \/ Test_connect_set_voltage
    \/ Test_connect_set_current_limit
    \/ Test_connect_lakeshore
    \/ Test_connect_raise
    \/ Test_disconnect
    \/ Test_disconnect_set_voltage
    \/ Test_disconnect_enable_output
    \/ Test_disconnect_rigol
    \/ Test_disconnect_alicat
    \/ Test_run
    \/ Test_run_flow
    \/ Test_run_voltage
    \/ Test_run_measure
    \/ Test_run_temps
    \/ Test_run_end
SpecTest == InitTest /\ [][NextTest]_vars

\* ------------------------------------------------- the power-supply driver
\* RigolDP2301 of rigol_dp2031.py, driven by one caller: test.rigol is the
\* driver object, test.at the position inside the method called, test.io the
\* number of uses the method has made of self.instrument (its timeout, query,
\* write and close) since it was entered.
InitRigol ==
    /\ kind \in Kinds
    /\ dummy = FALSE
    /\ Constructed
    /\ codec = NoCodec
    /\ port = NoPort
    /\ test = [NoTest EXCEPT !.rigol.obj = TRUE]

\* the caller invokes a method; the channel operations (lines 135-364) all
\* begin with self._validate_channel(channel)
Rigol_call ==
    /\ test.at \in {"idle", "done"}
    /\ test.calls < MaxOps
    /\ \E fn \in {"connect", "disconnect", "write", "query", "set_voltage",
                  "set_current_limit", "get_voltage_setting",
                  "get_current_setting", "read_voltage", "read_current",
                  "read_power", "read_measurements", "enable_output",
                  "is_output_enabled"},
          ch \in 0..(MAX_CHANNELS + 1) :
        /\ fn \in {"connect", "disconnect", "write", "query"} => ch = 0
        /\ test' = [test EXCEPT
                        !.at = IF fn \in {"connect", "disconnect", "write",
                                          "query"}
                               THEN fn ELSE "_validate_channel",
                        !.fn = fn, !.calls = @ + 1, !.channel = ch, !.io = 0,
                        !.prev = [fn |-> test.fn, st |-> test.out.st],
                        !.cause = NoError, !.exc = NoError,
                        !.out = [st |-> "none", err |-> NoError]]
    /\ TestOnly

\* connect(), lines 48-57: the try block, which any of its statements may
\* leave: pyvisa.ResourceManager(), rm.open_resource(), instrument.timeout,
\* self.query('*IDN?'), self.write('*CLS')
Rigol_connect ==
    /\ test.at = "connect"
    /\ \E fails \in {"none", "ResourceManager", "open_resource", "timeout",
                     "query", "write"} :
        test' =
            CASE fails \in {"ResourceManager", "open_resource"} ->
                    [test EXCEPT !.at = "connect_except",
                                 !.exc = Error("Exception")]
              [] fails = "timeout" ->
                    [test EXCEPT !.at = "connect_except",
                                 !.exc = Error("Exception"),
                                 !.rigol.instrument = TRUE, !.io = @ + 1]
              [] fails = "query" ->
                    [test EXCEPT !.at = "connect_except",
                                 !.exc = Error("RigolDP2301Error"),
                                 !.rigol.instrument = TRUE,
                                 !.rigol.is_connected = TRUE, !.io = @ + 2]
              [] fails = "write" ->
                    [test EXCEPT !.at = "connect_except",
                                 !.exc = Error("RigolDP2301Error"),
                                 !.rigol.instrument = TRUE,
                                 !.rigol.is_connected = TRUE, !.io = @ + 3]
              [] OTHER ->
                    [test EXCEPT !.at = "done",
                                 !.out = [st |-> "ok", err |-> NoError],
                                 !.rigol.instrument = TRUE,
                                 !.rigol.is_connected = TRUE, !.io = @ + 3]
    /\ TestOnly

\* Mutation of Rigol_connect_except: a handler that keeps self.instrument.
Rigol_connect_except_KeepsInstrument ==
    /\ test.at = "connect_except"
    /\ test' = Raises([test EXCEPT !.rigol.is_connected = FALSE],
                      [type |-> "RigolDP2301Error", from |-> "connect_except"])
    /\ TestOnly

\* connect(), lines 59-67: except Exception: is_connected = False, the
\* instrument is closed (errors ignored) and forgotten, RigolDP2301Error
Rigol_connect_except ==
    /\ test.at = "connect_except"
    /\ test' = Raises([test EXCEPT !.rigol.is_connected = FALSE,
                                   !.rigol.instrument = FALSE,
                                   !.io = IF test.rigol.instrument
                                          THEN @ + 1 ELSE @],
                      Error("RigolDP2301Error"))
    /\ TestOnly

\* disconnect(), lines 71-78
Rigol_disconnect ==
    /\ test.at = "disconnect"
    /\ test' = IF test.rigol.instrument
               THEN [test EXCEPT !.at = "done",
                                 !.out = [st |-> "ok", err |-> NoError],
                                 !.rigol.instrument = FALSE,
                                 !.rigol.is_connected = FALSE, !.io = @ + 1]
               ELSE [test EXCEPT !.at = "done",
                                 !.out = [st |-> "ok", err |-> NoError]]
    /\ TestOnly

\* _validate_channel(), lines 132-133, then the operation's write() or query()
Rigol_validate_channel ==
    /\ test.at = "_validate_channel"
    /\ test' = IF test.channel < 1 \/ test.channel > MAX_CHANNELS
               THEN Raises(test, Error("RigolDP2301Error"))
               ELSE [test EXCEPT !.at = IF test.fn \in {"set_voltage",
                                                        "set_current_limit",
                                                        "enable_output"}
                                        THEN "write" ELSE "query"]
    /\ TestOnly

\* write(), lines 90-97
Rigol_write ==
    /\ test.at = "write"
    /\ \E ok \in BOOLEAN :
        test' = IF ~RigolReady
                THEN Raises(test, Error("RigolDP2301Error"))
                ELSE IF ok
                THEN [test EXCEPT !.at = "done", !.io = @ + 1,
                                  !.out = [st |-> "ok", err |-> NoError]]
                ELSE Raises([test EXCEPT !.io = @ + 1],
                            Error("RigolDP2301Error"))
    /\ TestOnly

\* query(), lines 112-120, and in a channel operation the conversion of the
\* response, whose ValueError becomes RigolDP2301Error (lines 189-193)
Rigol_query ==
    /\ test.at = "query"
    /\ \E ok \in BOOLEAN, parses \in BOOLEAN :
        test' = IF ~RigolReady
                THEN Raises(test, Error("RigolDP2301Error"))
                ELSE IF ok /\ (parses \/ test.fn = "query")
                THEN [test EXCEPT !.at = "done", !.io = @ + 1,
                                  !.out = [st |-> "ok", err |-> NoError]]
                ELSE Raises([test EXCEPT !.io = @ + 1],
                            Error("RigolDP2301Error"))
    /\ TestOnly

NextRigol ==
    \/ Rigol_call
    \/ Rigol_connect
    \/ Rigol_connect_except
    \/ Rigol_disconnect
    \/ Rigol_validate_channel
    \/ Rigol_write
    \/ Rigol_query
SpecRigol == InitRigol /\ [][NextRigol]_vars

\* ==================================================================== claims
InFlight(t) == pc[t] \notin {"idle", "done"}
Returns(t) == InFlight(t) /\ pc'[t] = "done"
Returned(t, o) == pc[t] = "done" /\ op[t] = o

\* -------------------------------------------------------------------- C1
\* C1: on one handle at most one public operation is in flight on the transport
\* handle at any time: a call that has accessed the transport handle (used,
\* closed or replaced it) and has not returned yet holds the handle's lock, so
\* no two calls are between their first access and their return at once.
C1_Counterexample ==
    /\ \A t \in Threads : touched[t] => lock = t
    /\ \A t, u \in Threads : t # u => ~(touched[t] /\ touched[u])

\* -------------------------------------------------------------------- C2
\* The six exchanges of the binary read_pid, in order.
PidSequence ==
    <<[fc |-> 16, address |-> 999, values |-> <<14, 0>>],
      [fc |-> 4, address |-> 1000, count |-> 1],
      [fc |-> 16, address |-> 999, values |-> <<14, 1>>],
      [fc |-> 4, address |-> 1000, count |-> 1],
      [fc |-> 16, address |-> 999, values |-> <<14, 2>>],
      [fc |-> 4, address |-> 1000, count |-> 1]>>

\* C2: in the binary read_pid the exchanges are select slot 0, read, select
\* slot 1, read, select slot 2, read, in this order, the lock is held for all
\* of them, and no other caller's access to the handle (an exchange or a
\* close) falls between the first select write and the last result read.
C2_Counterexample ==
    \A t \in Threads :
        (kind = "modbus" /\ ~dummy /\ op[t] = "read_pid") =>
            /\ \E n \in 0..6 : sent[t] = SubSeq(PidSequence, 1, n)
            /\ (pc[t] = "done" /\ ret[t].st = "ok") => sent[t] = PidSequence
            /\ pc[t] \in {"read_pid_sel", "read_pid_rd"} => lock = t
            /\ ~foreign[t]

\* -------------------------------------------------------------------- C3
\* C3: in read(include_pid=True), on either transport, no other caller's
\* operation uses the handle between the telemetry exchange and the last PID
\* exchange of that read call.
C3_Counterexample ==
    \A t \in Threads :
        (op[t] = "read" /\ arg[t].include_pid) => ~foreign[t]

\* -------------------------------------------------------------------- C4
\* The operations the not-connected guard is claimed for, and the keys write()
\* recognizes on each driver.
GuardedOps ==
    {"read", "read_setpoint", "set_flow_rate", "set_pressure", "set_gas",
     "read_pid", "set_pid", "write"}
RecognizedKeys ==
    IF kind = "modbus" THEN {"setpoint", "P", "D", "I"}
    ELSE {"setpoint", "pressure", "gas", "P", "D", "I"}
Recognized(t) ==
    /\ op[t] = "write" => DOMAIN arg[t].data \cap RecognizedKeys # {}
    /\ op[t] = "set_pid" => Provided(arg[t]) # <<>>

\* C4: on both drivers every guarded operation (read, read_setpoint,
\* set_flow_rate, set_pressure, set_gas, read_pid, set_pid with a gain to set,
\* write with a recognized key) that runs on a hardware handle whose connected flag is false
\* (before a successful initialize() or after close()) ends with the
\* not-connected error, returns no value and has made no transport exchange.
C4_Counterexample ==
    [][\A t \in Threads :
          (~dummy /\ ~connected /\ op[t] \in GuardedOps /\ Recognized(t)
             /\ Returns(t))
          => /\ ret'[t] = [st |-> "RuntimeError", val |-> NoVal]
             /\ sent'[t] = <<>>]_vars

\* -------------------------------------------------------------------- C5
\* C5: after initialize() has failed on a hardware handle of either driver the
\* handle is Disconnected: connected is false and no transport handle is
\* retained (so that the guard of the following operation raises the
\* not-connected error instead of attempting an exchange).
C5_Counterexample ==
    \A t \in Threads :
        (~dummy /\ Returned(t, "initialize") /\ ret[t].st # "ok") =>
            /\ ~connected
            /\ cli = None
            /\ serial = None

\* -------------------------------------------------------------------- C6
\* The transport-level errors of the two drivers.
TransportErrors ==
    {"IOError", "TimeoutError", "ValueError", "ConnectionException",
     "SerialException"}

\* C6: on either driver an operation that fails with a transport-level error
\* while the handle is Connected leaves connected true and the transport
\* handle in place, and connected only ever goes from true to false in the
\* last statement of close().
C6_Counterexample ==
    [][/\ \A t \in Threads :
            (connected /\ Returns(t) /\ ret'[t].st \in TransportErrors)
            => (connected' /\ cli'.obj = cli.obj /\ serial'.obj = serial.obj)
       /\ (connected /\ ~connected')
            => \E t \in Threads : pc[t] = "close_flag" /\ pc'[t] # pc[t]]_vars

\* -------------------------------------------------------------------- C7
\* C7: when calls are made one at a time, on either driver close() from any
\* state returns normally with connected false and no transport handle held
\* (so a second close() finds and leaves exactly that state), and an
\* initialize() that succeeds afterwards has the handle Connected again, in
\* hardware mode with an open transport handle.
C7_CloseIdempotent ==
    \A t \in Threads :
        /\ Returned(t, "close") =>
              /\ ret[t].st = "ok"
              /\ ~connected
              /\ cli = None
              /\ serial = None
        /\ (Returned(t, "initialize") /\ ret[t].st = "ok") =>
              /\ connected
              /\ (~dummy /\ kind = "modbus") => (cli.obj /\ cli.open)
              /\ (~dummy /\ kind = "serial") => (serial.obj /\ serial.open)

\* close() has returned on a hardware handle that had a transport handle and
\* on which an exchange or a connect had failed before.
C7_Witness ==
    \E t \in Threads :
        Returned(t, "close") /\ ~dummy /\ io /\ dev.faults > 0

\* -------------------------------------------------------------------- C8
\* The reading read() returns in simulation mode on each driver.
SyntheticReading ==
    IF kind = "modbus" THEN AlicatDummyReading ELSE AlicatSerialDummyReading

\* C8: in simulation mode, on either driver, no call ever makes a transport
\* call or creates a transport handle, no call issues an exchange or ends with
\* a transport-originated error, initialize() ends with connected true and
\* read() returns the driver's fixed synthetic reading.
C8_SimulationNoTransport ==
    dummy =>
        /\ ~io
        /\ cli = None
        /\ serial = None
        /\ \A t \in Threads :
              /\ sent[t] = <<>>
              /\ ret[t].st \notin TransportErrors \cup {"ConnectionError"}
              /\ Returned(t, "initialize") => (ret[t].st = "ok" /\ connected)
              /\ Returned(t, "read") =>
                    ret[t] = [st |-> "ok", val |-> SyntheticReading]

\* A simulation-mode read(include_pid=True) has returned on a handle that
\* initialize() had set connected.
C8_Witness ==
    \E t \in Threads :
        dummy /\ connected /\ Returned(t, "read") /\ arg[t].include_pid

\* -------------------------------------------------------------------- C9
\* C9: in simulation mode every public operation still acquires the handle's
\* lock before it returns its fixed value: the step in which a simulation-mode
\* call returns is taken by the holder of the lock.
C9_Counterexample ==
    [][\A t \in Threads : (dummy /\ Returns(t)) => lock = t]_vars

\* -------------------------------------------------------------------- C10
OutOfRange(v) == v < SETPOINT_MIN \/ v > SETPOINT_MAX

\* What set_flow_rate(v) puts on the wire on each transport.
SetpointExchange(v) ==
    IF kind = "modbus"
    THEN [fc |-> 16, address |-> REG_SETPOINT_F32, values |-> _float_to_regs(Single(v))]
    ELSE [cmd |-> "S", value |-> Fmt4(v)]

\* C10: on both transports a set_flow_rate(v) that the device acknowledges
\* has transmitted v itself, also when v is outside [0, 1000], returns the ok
\* acknowledgement carrying v, and has logged exactly one warning when v is
\* outside the range and none when v is inside it.
C10_Counterexample ==
    \A t \in Threads :
        (~dummy /\ Returned(t, "set_flow_rate") /\ ret[t].st = "ok") =>
            LET v == arg[t].flow_rate
            IN  /\ sent[t] = <<SetpointExchange(v)>>
                /\ ret[t].val = [status |-> "ok", setpoint |-> v]
                /\ warned[t] = IF OutOfRange(v) THEN 1 ELSE 0

\* -------------------------------------------------------------------- C11
PidKeys == {"P", "D", "I"}

\* The command write(data) is to execute: the first of setpoint, pressure,
\* gas, PID that data has a key for.
Priority(data) ==
    IF "setpoint" \in DOMAIN data THEN "setpoint"
    ELSE IF "pressure" \in DOMAIN data THEN "pressure"
    ELSE IF "gas" \in DOMAIN data THEN "gas"
    ELSE IF DOMAIN data \cap PidKeys # {} THEN "pid"
    ELSE "none"

\* The ASCII commands of that one setter for data, and what it returns.
CommandsOf(c, data) ==
    CASE c = "setpoint" -> {[cmd |-> "S", value |-> Fmt4(data["setpoint"])]}
      [] c = "pressure" -> {[cmd |-> "P", value |-> Fmt4(data["pressure"])]}
      [] c = "gas" -> {[cmd |-> "G", value |-> GAS_TABLE(data["gas"])]}
      [] c = "pid" -> {[cmd |-> "W", reg |-> 20 + GainIndex(g), value |-> data[g]] :
                          g \in DOMAIN data \cap PidKeys}
      [] OTHER -> {}
AckOf(c, data) ==
    CASE c = "setpoint" -> [status |-> "ok", setpoint |-> data["setpoint"]]
      [] c = "pressure" -> [status |-> "ok", pressure |-> data["pressure"]]
      [] c = "gas" -> [status |-> "ok", gas |-> data["gas"]]
      [] c = "pid" ->
            IF dummy
            THEN [status |-> "ok", P |-> Get(data, "P"), D |-> Get(data, "D"),
                  I |-> Get(data, "I")]
            ELSE Merge([status |-> "ok"],
                       [g \in DOMAIN data \cap PidKeys |-> data[g]])
      [] OTHER -> NoOp

\* C11: on the ASCII driver write(data), for every subset of the keys
\* setpoint, pressure, gas, P, D, I, executes only the setter of the
\* highest-priority key present (setpoint, then pressure, then gas, then PID):
\* every exchange of the call is a command of that setter carrying that key's
\* value, a setpoint, pressure or gas write that succeeds on hardware is
\* exactly one command, the value returned is that setter's, and without a
\* recognized key the no-op result is returned, without error or exchange.
C11_WritePriority ==
    \A t \in Threads :
        (kind = "serial" /\ op[t] = "write") =>
            LET data == arg[t].data
                c == Priority(data)
            IN  /\ \A i \in 1..Len(sent[t]) : sent[t][i] \in CommandsOf(c, data)
                /\ c # "pid" => Len(sent[t]) <= 1
                /\ (pc[t] = "done" /\ ret[t].st = "ok") =>
                      /\ ret[t].val = AckOf(c, data)
                      /\ (~dummy /\ c \notin {"pid", "none"}) => Len(sent[t]) = 1
                /\ (pc[t] = "done" /\ c = "none") =>
                      (ret[t].st = "ok" /\ sent[t] = <<>>)

\* write() with a setpoint and a P key has returned on ASCII hardware after
\* sending the one setpoint command.
C11_Witness ==
    \E t \in Threads :
        /\ kind = "serial" /\ ~dummy /\ Returned(t, "write")
        /\ {"setpoint", "P"} \subseteq DOMAIN arg[t].data
        /\ ret[t].st = "ok"
        /\ Len(sent[t]) = 1

\* -------------------------------------------------------------------- C12
\* C12: on the binary driver write(data) for every data without a setpoint key
\* and with a pressure or gas key, with or without P, D, I keys, is a no-op:
\* the call makes no transport exchange, changes no gain of the device, and
\* returns the no-op result.
C12_Counterexample ==
    [][\A t \in Threads :
          (/\ kind = "modbus"
           /\ op[t] = "write"
           /\ InFlight(t)
           /\ "setpoint" \notin DOMAIN arg[t].data
           /\ DOMAIN arg[t].data \cap {"pressure", "gas"} # {})
          => /\ sent'[t] = <<>>
             /\ pc'[t] # pc[t] => dev'.gains = dev.gains
             /\ pc'[t] = "done" => ret'[t] = [st |-> "ok", val |-> NoOp]]_vars

\* -------------------------------------------------------------------- C13
\* C13: in the binary read_pid on a connected handle, a result read that
\* reports an error gives 0 for its gain and does not end the call: every
\* result read yields 0 when it failed and otherwise the value the device
\* reported, the gains of the earlier steps are kept, the next slot is
\* selected after the first and second read, and after the third the call
\* returns all three gains, having issued all six exchanges.
C13_LenientRead ==
    [][\A t \in Threads :
          (/\ kind = "modbus" /\ ~dummy /\ connected /\ cli.open
           /\ op[t] = "read_pid"
           /\ pc[t] = "read_pid_rd" /\ pc'[t] # pc[t])
          => LET k == Len(loc[t].gains) + 1
                 failed == dev'.faults > dev.faults
                 g == IF failed THEN 0 ELSE dev.gains[dev.sel + 1]
                 gains == Append(loc[t].gains, g)
             IN  IF k < 3
                 THEN /\ pc'[t] = "read_pid_sel"
                      /\ loc'[t].gains = gains
                 ELSE /\ pc'[t] = "done"
                      /\ ret'[t] = [st |-> "ok",
                                    val |-> [P |-> gains[1], D |-> gains[2],
                                             I |-> gains[3]]]
                      /\ sent'[t] = PidSequence]_vars

\* read_pid() has returned P and I as the device holds them and 0 for D, whose
\* result read had reported an error.
C13_Witness ==
    \E t \in Threads :
        /\ kind = "modbus" /\ ~dummy /\ Returned(t, "read_pid")
        /\ dev.faults = 1
        /\ ret[t] = [st |-> "ok",
                     val |-> [P |-> dev.gains[1], D |-> 0, I |-> dev.gains[3]]]

\* -------------------------------------------------------------------- C14
\* C14: in the ASCII read_pid on a connected handle the queries R21, R22, R23
\* are independent: after a query whose response is malformed, missing or
\* fails the next query is still sent, and the call returns 0 for exactly the
\* gains whose response was bad and the device's value for the others.
C14_Counterexample ==
    [][\A t \in Threads :
          (/\ kind = "serial" /\ ~dummy /\ connected /\ serial.open
           /\ op[t] = "read_pid"
           /\ pc[t] = "read_pid_cmd" /\ sent'[t] # sent[t])
          => LET k == Len(loc[t].gains) + 1
                 failed == dev'.faults > dev.faults
                 good(j) == IF j < k THEN loc[t].gains[j] = PidResponseFor(j)
                            ELSE ~failed
                 g(j) == IF good(j) THEN dev.gains[j] ELSE 0
             IN  IF k < 3
                 THEN pc'[t] = "read_pid_cmd" /\ Len(loc'[t].gains) = k
                 ELSE /\ pc'[t] = "done"
                      /\ ret'[t] = [st |-> "ok",
                                    val |-> [P |-> g(1), D |-> g(2), I |-> g(3)]]]_vars

\* -------------------------------------------------------------------- C15
\* The command code of a gain in the binary set_pid, and its write.
GainCode(g) == CASE g = "P" -> 8 [] g = "D" -> 9 [] g = "I" -> 10
GainWrite(g, v) == [fc |-> 16, address |-> 999, values |-> <<GainCode(g), v>>]
Given(a) == {g \in PidKeys : a[g] # PyNone}
InOrder(q) ==
    \A i, j \in 1..Len(q) : i < j => GainCode(q[i]) < GainCode(q[j])

\* The gains still to write are given ones in the order P, D, I, and a call
\* that returns has issued the write [8|9|10, value] of every given gain, in
\* that order, and no other; its result has keys of given gains only, with
\* the values given, and one warning was logged per given gain not in it.
C15_Issued ==
    \A t \in Threads :
        (kind = "modbus" /\ ~dummy /\ op[t] = "set_pid") =>
            LET a == arg[t]
                q == Provided(a)
            IN  /\ {q[i] : i \in 1..Len(q)} = Given(a) /\ InOrder(q)
                /\ \A i \in 1..Len(sent[t]) :
                      i <= Len(q) /\ sent[t][i] = GainWrite(q[i], a[q[i]])
                /\ (pc[t] = "done" /\ ret[t].st = "ok") =>
                      /\ Len(sent[t]) = Len(q)
                      /\ "status" \in DOMAIN ret[t].val
                      /\ DOMAIN ret[t].val \ {"status"} \subseteq Given(a)
                      /\ \A g \in DOMAIN ret[t].val \ {"status"} :
                            ret[t].val[g] = a[g]
                      /\ warned[t] = Len(q) - Cardinality(DOMAIN ret[t].val \ {"status"})

\* Every write of the call: a write that reported an error leaves its gain
\* out of the result and logs a warning, one that did not puts the gain in;
\* either way the next given gain is written, and after the last the result
\* is returned.
C15_EachWrite ==
    \A t \in Threads :
        (/\ kind = "modbus" /\ ~dummy /\ connected /\ cli.open
         /\ op[t] = "set_pid"
         /\ pc[t] = "set_pid_wr" /\ sent'[t] # sent[t])
        => LET g == Head(loc[t].todo)
               rest == Tail(loc[t].todo)
               failed == dev'.faults > dev.faults
               results == IF failed THEN loc[t].result
                          ELSE Merge(loc[t].result, [k \in {g} |-> arg[t][g]])
           IN  /\ warned'[t] = warned[t] + (IF failed THEN 1 ELSE 0)
               /\ IF rest # <<>>
                  THEN /\ pc'[t] = "set_pid_wr"
                       /\ loc'[t].todo = rest
                       /\ loc'[t].result = results
                  ELSE /\ pc'[t] = "done"
                       /\ ret'[t] = [st |-> "ok",
                                     val |-> Merge([status |-> "ok"], results)]

\* C15: in the binary set_pid a write [8|9|10, value] is issued for exactly
\* the gains provided, in the order P, D, I; a write that reports an error
\* leaves its gain out of the result and logs a warning while the remaining
\* gains are still written, so the result has a gain key if and only if that
\* gain's write was issued and reported no error.
C15_SetPidLenient == []C15_Issued /\ [][C15_EachWrite]_vars

\* set_pid(P, D, I) has returned with D missing from the result, one warning
\* logged, and P and I written after all.
C15_Witness ==
    \E t \in Threads :
        /\ kind = "modbus" /\ ~dummy /\ Returned(t, "set_pid")
        /\ Given(arg[t]) = PidKeys
        /\ ret[t].st = "ok"
        /\ DOMAIN ret[t].val = {"status", "P", "I"}
        /\ warned[t] = 1
        /\ Len(sent[t]) = 3

\* -------------------------------------------------------------------- C16
\* The register of a gain in the ASCII set_pid, and its command.
GainRegister(g) == CASE g = "P" -> 21 [] g = "D" -> 22 [] g = "I" -> 23
GainCommand(g, v) == [cmd |-> "W", reg |-> GainRegister(g), value |-> v]

\* The commands a call has sent are those of the first given gains, in the
\* order P, D, I; a call that returns normally has sent one for every given
\* gain and returns them all.
C16_Sent ==
    \A t \in Threads :
        (kind = "serial" /\ ~dummy /\ op[t] = "set_pid") =>
            LET a == arg[t]
                q == Provided(a)
            IN  /\ {q[i] : i \in 1..Len(q)} = Given(a) /\ InOrder(q)
                /\ \A i \in 1..Len(sent[t]) :
                      i <= Len(q) /\ sent[t][i] = GainCommand(q[i], a[q[i]])
                /\ (pc[t] = "done" /\ ret[t].st = "ok") =>
                      /\ Len(sent[t]) = Len(q)
                      /\ ret[t].val = Merge([status |-> "ok"],
                                            [g \in Given(a) |-> a[g]])

\* Every command of the call: one that fails ends the call with that failure,
\* no value, and the device's gains as they were; one that succeeds has set
\* its gain on the device and is followed by the next given gain's.
C16_EachCommand ==
    \A t \in Threads :
        (/\ kind = "serial" /\ ~dummy /\ serial.open
         /\ op[t] = "set_pid"
         /\ pc[t] = "set_pid_cmd" /\ sent'[t] # sent[t])
        => LET g == Head(loc[t].todo)
               rest == Tail(loc[t].todo)
               failed == dev'.faults > dev.faults
           IN  IF failed
               THEN /\ pc'[t] = "done"
                    /\ ret'[t].st \in TransportErrors
                    /\ ret'[t].val = NoVal
                    /\ dev'.gains = dev.gains
               ELSE /\ dev'.gains = [dev.gains EXCEPT ![GainIndex(g)] = arg[t][g]]
                    /\ IF rest # <<>>
                       THEN pc'[t] = "set_pid_cmd" /\ loc'[t].todo = rest
                       ELSE pc'[t] = "done" /\ ret'[t].st = "ok"

\* C16: in the ASCII set_pid the commands W21, W22, W23 are sent only for the
\* gains provided, in the order P, D, I; the first command that fails ends
\* the call, its failure reaches the caller, no command of a later gain is
\* sent, and gains written before the failure stay written.
C16_SetPidAborts == []C16_Sent /\ [][C16_EachCommand]_vars

\* set_pid(P, D, I) has failed at its second command: P is written, D and I
\* are not, and W23 was never sent.
C16_Witness ==
    \E t \in Threads :
        /\ kind = "serial" /\ ~dummy /\ Returned(t, "set_pid")
        /\ Given(arg[t]) = PidKeys
        /\ ret[t].st \in TransportErrors
        /\ Len(sent[t]) = 2
        /\ dev.gains = <<arg[t].P, 120, 7>>

\* -------------------------------------------------------------------- C17
\* A set_pid(P=x) with D and I omitted that returns P in its result has set
\* the device's P gain to x and left its D and I gains as they were.
C17_PartialSet ==
    \A t \in Threads :
        (/\ ~dummy /\ op[t] = "set_pid" /\ Given(arg[t]) = {"P"}
         /\ Returns(t) /\ ret'[t].st = "ok" /\ "P" \in DOMAIN ret'[t].val)
        => dev'.gains = <<arg[t].P, dev.gains[2], dev.gains[3]>>

\* A read_pid() on a connected handle, with no exchange having failed,
\* returns the three gains the device holds.
C17_ReadBack ==
    \A t \in Threads :
        (/\ ~dummy /\ connected /\ dev.faults = 0
         /\ Returned(t, "read_pid") /\ ret[t].st = "ok")
        => ret[t].val = [P |-> dev.gains[1], D |-> dev.gains[2],
                         I |-> dev.gains[3]]

\* C17: on both transports, against a device whose gains are (p, d, i), a
\* successful set_pid(P=x) with D and I omitted leaves the device with
\* (x, d, i), and a read_pid() on the same handle returns the gains the device
\* holds, hence P == x, D == d and I == i.
C17_PartialSetReadBack == []C17_ReadBack /\ [][C17_PartialSet]_vars

\* read_pid() has returned (10, 120, 7) from the device that started with
\* (50, 120, 7): only its P gain was set before.
C17_Witness ==
    \E t \in Threads :
        /\ ~dummy /\ connected /\ dev.faults = 0
        /\ Returned(t, "read_pid")
        /\ ret[t] = [st |-> "ok", val |-> [P |-> 10, D |-> 120, I |-> 7]]

\* -------------------------------------------------------------------- C18
\* The high and the low 16 bits of the 32-bit pattern of a float:
\* b >> 16 and b mod 2^16 for b = sign * 2^31 + exp * 2^23 + frac.
HighBits(v) == v.sign * 32768 + v.exp * 128 + v.frac \div 65536
LowBits(v) == v.frac % 65536

\* C18: the register codec round-trips bit-exactly: for the 32-bit pattern b
\* of a float v, encode(v) is (high, low) = (b >> 16, b mod 2^16), both words in
\* 0..65535 and the high word first; decode(high, low) is the float whose
\* pattern is (high << 16) | low; decode(encode(v)) has the bit pattern of v;
\* 22.0 encodes to (0x41B0, 0x0000) and decodes back to 22.0.
C18_CodecRoundTrip ==
    /\ codec.at \in {"regs", "out"} =>
          /\ codec.regs = <<HighBits(codec.val), LowBits(codec.val)>>
          /\ codec.regs[1] \in 0..65535 /\ codec.regs[2] \in 0..65535
          /\ codec.val = Single(2200000) => codec.regs = <<16816, 0>>
    /\ codec.at = "out" =>
          /\ HighBits(codec.out) = codec.regs[1]
          /\ LowBits(codec.out) = codec.regs[2]
          /\ codec.out = codec.val

\* A float with bits in both words (-17.84, 0xC18EB852) went through encode
\* and decode.
C18_Witness ==
    /\ codec.at = "out"
    /\ codec.val = [sign |-> 1, exp |-> 131, frac |-> 964690]
    /\ codec.regs = <<49550, 47186>>

\* -------------------------------------------------------------------- C19
\* The sample a telemetry read that has just been answered was given: the one
\* before the sample the device holds now (calls are made one at a time).
Answered == 1 - dev.sample
\* The float in the word pair at a block offset of the input registers of the
\* image the read was given.
FieldAt(offset) ==
    _regs_to_float(InputImage(Answered)[offset + 1], InputImage(Answered)[offset + 2])
\* What a single-pair read of input registers at an address decodes from it.
PairAt(address) ==
    LET regs == InputRegs(Answered, address, REG_PAIR_LEN)
    IN  _regs_to_float(regs[1], regs[2])
HardwareResult(t, o) == ~dummy /\ Returned(t, o) /\ ret[t].st = "ok"

\* C19: on one fixed register image the binary driver's read(false) returns for
\* setpoint, valve drive, pressure, temperature, volumetric flow and mass flow
\* the floats of the word pairs at block offsets 0, 2, 4, 10, 12, 14, and each
\* equals what a single-pair read of the field's own register address decodes:
\* read_setpoint, read_pressure, read_temperature and read_mass_flow return
\* these values, and so do the pairs at the valve-drive and volumetric-flow
\* registers.
C19_BlockConsistency ==
    /\ PairAt(REG_VALVEDRIVE_F32) = FieldAt(2)
    /\ PairAt(REG_VOL_FLOW_F32) = FieldAt(12)
    /\ \A t \in Threads :
          kind = "modbus" =>
            /\ HardwareResult(t, "read") /\ ~arg[t].include_pid =>
                  /\ ret[t].val.setpoint = FieldAt(0)
                  /\ ret[t].val.valve_drive = FieldAt(2)
                  /\ ret[t].val.pressure = FieldAt(4)
                  /\ ret[t].val.temperature = FieldAt(10)
                  /\ ret[t].val.volumetric_flow = FieldAt(12)
                  /\ ret[t].val.mass_flow = FieldAt(14)
            /\ HardwareResult(t, "read_setpoint") => ret[t].val.value = FieldAt(0)
            /\ HardwareResult(t, "read_pressure") => ret[t].val.value = FieldAt(4)
            /\ HardwareResult(t, "read_temperature") => ret[t].val.value = FieldAt(10)
            /\ HardwareResult(t, "read_mass_flow") => ret[t].val.value = FieldAt(14)

\* read(false) has returned the six floats of the first image: 22.0, 27.0,
\* 8.92, 306.0, 21.0 and 23.0.
C19_Witness ==
    \E t \in Threads :
        /\ kind = "modbus" /\ HardwareResult(t, "read") /\ ~arg[t].include_pid
        /\ ret[t].val.setpoint = [sign |-> 0, exp |-> 131, frac |-> 3145728]
        /\ ret[t].val.valve_drive = [sign |-> 0, exp |-> 131, frac |-> 5767168]
        /\ ret[t].val.pressure = [sign |-> 0, exp |-> 130, frac |-> 964690]
        /\ ret[t].val.temperature = [sign |-> 0, exp |-> 135, frac |-> 1638400]
        /\ ret[t].val.volumetric_flow = [sign |-> 0, exp |-> 131, frac |-> 2621440]
        /\ ret[t].val.mass_flow = [sign |-> 0, exp |-> 131, frac |-> 3670016]

\* -------------------------------------------------------------------- C20
\* The one exchange of read(): the block read, or the status command.
ReadExchange ==
    IF kind = "modbus"
    THEN [fc |-> 4, address |-> BLOCK_START, count |-> BLOCK_LEN]
    ELSE [cmd |-> ""]
\* The numbers of the status line the read was given.
LineNumber(i) == float(StatusLine(Answered)[i])
\* The reading's measured fields are those of the response the read was given.
MeasuredFromExchange(r) ==
    IF kind = "modbus"
    THEN /\ r.setpoint = FieldAt(0)
         /\ r.pressure = FieldAt(4)
         /\ r.temperature = FieldAt(10)
         /\ r.volumetric_flow = FieldAt(12)
         /\ r.mass_flow = FieldAt(14)
    ELSE /\ r.pressure = LineNumber(2)
         /\ r.temperature = LineNumber(3)
         /\ r.volumetric_flow = LineNumber(4)
         /\ r.mass_flow = LineNumber(5)
         /\ r.setpoint = LineNumber(6)
\* The valve drive is one of the values of that response.
ValveDriveFromExchange(r) ==
    IF kind = "modbus"
    THEN r.valve_drive = FieldAt(2)
    ELSE \E i \in 2..6 : r.valve_drive = LineNumber(i)
PlainRead(t) == ~dummy /\ op[t] = "read" /\ ~arg[t].include_pid

\* C20: a non-simulated read(false) performs exactly one transport exchange
\* (binary: one 16-word block read at the base address; ASCII: one status
\* command) and either returns a reading whose six numeric fields all come from
\* that exchange, or fails as a whole and returns no reading.
C20_Counterexample ==
    \A t \in Threads :
        PlainRead(t) /\ pc[t] = "done" =>
            /\ sent[t] = <<ReadExchange>>
            /\ IF ret[t].st = "ok"
               THEN /\ MeasuredFromExchange(ret[t].val)
                    /\ ValveDriveFromExchange(ret[t].val)
               ELSE ret[t].val = NoVal

\* C20 as it holds: a non-simulated read(false) performs at most one transport
\* exchange, the block read or the status command, and none when it finds no
\* usable transport object; it returns a reading only after exactly one
\* exchange, with every measured field taken from that exchange's response (the
\* ASCII reading's valve drive is the constant 0.0, which is no measurement), or
\* it fails as a whole and returns no reading; no field is from another
\* exchange or an earlier call.
C20_AtomicRead ==
    \A t \in Threads :
        PlainRead(t) =>
            /\ sent[t] \in {<<>>, <<ReadExchange>>}
            /\ pc[t] = "done" =>
                  IF ret[t].st = "ok"
                  THEN /\ sent[t] = <<ReadExchange>>
                       /\ MeasuredFromExchange(ret[t].val)
                       /\ IF kind = "modbus"
                          THEN ValveDriveFromExchange(ret[t].val)
                          ELSE ret[t].val.valve_drive = 0
                  ELSE ret[t].val = NoVal

\* A read(false) has returned the device's second sample after one exchange,
\* an earlier telemetry read having been given the first.
C20_Witness ==
    \E t \in Threads :
        /\ PlainRead(t) /\ pc[t] = "done" /\ ret[t].st = "ok"
        /\ Answered = 1
        /\ sent[t] = <<ReadExchange>>
        /\ MeasuredFromExchange(ret[t].val)

\* -------------------------------------------------------------------- C21
\* A failed initialize() of the ASCII driver has closed the port: it raised
\* ConnectionError, connected is false and there is no serial handle; and one
\* that succeeded has the port open.
C21_FailureCleansUp ==
    \A t \in Threads :
        kind = "serial" /\ ~dummy /\ Returned(t, "initialize") =>
            IF ret[t].st = "ok"
            THEN connected /\ serial.obj /\ serial.open
            ELSE ret[t].st = "ConnectionError" /\ ~connected /\ serial = None

\* The probe of initialize() that got no valid status line (a timeout, an I/O
\* fault, or a line that is not a status line) does not go on to set connected.
C21_ProbeValidates ==
    \A t \in Threads :
        (/\ kind = "serial" /\ op[t] = "initialize"
         /\ pc[t] = "initialize_probe" /\ dev'.faults > dev.faults)
        => pc'[t] # "initialize_flag"

\* C21: the ASCII driver's initialize() ends connected only if the serial port
\* was opened and the empty-command probe returned a valid status line; if
\* opening fails, the probe times out or its response is not a valid status
\* line, initialize closes the port, leaves connected false with no serial
\* handle, and fails with ConnectionError.
C21_Counterexample == []C21_FailureCleansUp /\ [][C21_ProbeValidates]_vars

\* -------------------------------------------------------------------- C22
\* The status command of a hardware read() of the ASCII driver was answered
\* with a line (loc.response is read()'s local response).
StatusAnswered(t) ==
    /\ kind = "serial" /\ ~dummy /\ op[t] = "read"
    /\ loc[t].response # <<>>

\* C22: the ASCII status parser maps a line of seven fields (unit, pressure,
\* temperature, vol-flow, mass-flow, setpoint, gas) to pressure = field 2,
\* temperature = field 3, volumetric_flow = field 4, mass_flow = field 5,
\* setpoint = field 6 and gas = field 7, and for every line with fewer than
\* seven fields read fails with a parse error and returns no reading.
C22_StatusParse ==
    \A t \in Threads :
        StatusAnswered(t) =>
            LET parts == loc[t].response
            IN  /\ pc[t] = "read_build" =>
                      /\ Len(parts) = 7
                      /\ loc[t].result =
                            [pressure |-> float(parts[2]),
                             temperature |-> float(parts[3]),
                             volumetric_flow |-> float(parts[4]),
                             mass_flow |-> float(parts[5]),
                             setpoint |-> float(parts[6]),
                             gas |-> parts[7]]
                /\ Len(parts) < 7 =>
                      /\ pc[t] = "done"
                      /\ ret[t] = [st |-> "ValueError", val |-> NoVal]

\* read() was answered with the six-field line and has failed.
C22_Witness ==
    \E t \in Threads :
        /\ StatusAnswered(t) /\ loc[t].response = SixLine
        /\ pc[t] = "done" /\ ret[t].st = "ValueError"

\* read() has parsed the seven fields of the device's second status line.
C22_WitnessParsed ==
    \E t \in Threads :
        /\ StatusAnswered(t) /\ pc[t] = "read_build"
        /\ loc[t].response = StatusLine(1)
        /\ loc[t].result.pressure = 2300000 /\ loc[t].result.gas = "Air"

\* -------------------------------------------------------------------- C23
\* The steps that make the one exchange of read (the block read, the status
\* command), of a single-pair read, of set_flow_rate, set_pressure and set_gas,
\* and the commands of the ASCII set_pid.
StrictSteps ==
    IF kind = "modbus"
    THEN {"read_io", "read_pair_io", "write_holding_io"}
    ELSE {"read_cmd", "set_flow_rate_cmd", "set_pressure_cmd", "set_gas_cmd",
          "set_pid_cmd"}
\* t has just made an exchange that failed.
FailedExchange(t) == sent'[t] # sent[t] /\ dev'.faults > dev.faults
NotSentBefore(t) ==
    \A i \in 1..Len(sent[t]) : sent[t][i] # sent'[t][Len(sent'[t])]

\* C23: no operation retries a failed exchange: in read, the single-pair reads,
\* set_flow_rate, set_pressure, set_gas and the ASCII set_pid, an exchange that
\* reports a failure was attempted once, the call ends with it, issuing no
\* further exchange, and the failure reaches the caller.
C23_NoRetry ==
    [][\A t \in Threads :
          (~dummy /\ pc[t] \in StrictSteps /\ FailedExchange(t)) =>
              /\ NotSentBefore(t)
              /\ pc'[t] = "done"
              /\ ret'[t].st \notin {"ok", "none"}
              /\ ret'[t].val = NoVal]_vars

\* A set_flow_rate() whose one exchange failed has ended with the failure.
C23_Witness ==
    \E t \in Threads :
        /\ ~dummy /\ Returned(t, "set_flow_rate")
        /\ Len(sent[t]) = 1 /\ dev.faults = 1
        /\ ret[t].st \in {"IOError", "TimeoutError"}

\* -------------------------------------------------------------------- C24
\* C24: every reading returned by the ASCII driver's read(), in any mode and
\* after any sequence of operations, has valve_drive == 0.0.
C24_Counterexample ==
    \A t \in Threads :
        kind = "serial" /\ Returned(t, "read") /\ ret[t].st = "ok"
            => ret[t].val.valve_drive = 0

\* -------------------------------------------------------------------- C25
\* The statements of a finished _command() on a handle with a port ran in the
\* order clear, write, read, and the framed command was written.
C25_Order ==
    port.at = "done" /\ port.st # "RuntimeError" =>
        /\ port.steps = <<"reset_input_buffer", "write", "read_until">>
        /\ port.out = <<"A", port.cmd, "\r">>
\* An empty response fails with a timeout error instead of returning a value.
C25_EmptyTimesOut ==
    port.at = "done" =>
        /\ port.st = "ok" => port.response.text # ""
        /\ port.st # "ok" => port.response = NoPort.response

\* C25: every ASCII command exchange runs the steps in the order
\* clear-stale-input, write <unit-id><body> + carriage return, read up to the
\* next carriage return: input that arrived before the command was written is
\* never returned as that command's response, and an empty response after the
\* read timeout fails with a timeout error instead of returning a value.
C25_Counterexample ==
    /\ C25_Order
    /\ C25_EmptyTimesOut
    /\ port.at = "done" /\ port.st = "ok" => port.response.when = "after_write"

\* C25 as it holds: the steps run in that order and an empty response fails
\* with a timeout error; input that arrived before the input buffer was cleared
\* is never returned as the command's response (input that arrives between the
\* clearing and the write is).
C25_ClearedInputNotReturned ==
    /\ C25_Order
    /\ C25_EmptyTimesOut
    /\ port.at = "done" /\ port.st = "ok" => port.response.when # "before_clear"

\* A command has returned the first line that arrived after its write, while
\* a later line waits in the buffer.
C25_Witness ==
    /\ port.at = "done" /\ port.st = "ok"
    /\ port.response = [text |-> "A 50", when |-> "after_write"]
    /\ port.inbuf # <<>>

\* -------------------------------------------------------------------- C26
\* C26: the binary driver's read_pid never reports, for a gain slot, a value
\* that was read from the result register while the device's selected-slot
\* pointer designated a different slot: each gain returned is the device's
\* gain of that slot, or 0 when its select write or its result read failed.
C26_Counterexample ==
    \A t \in Threads :
        kind = "modbus" /\ ~dummy /\ Returned(t, "read_pid") /\ ret[t].st = "ok"
            => /\ ret[t].val.P \in {dev.gains[1], 0}
               /\ ret[t].val.D \in {dev.gains[2], 0}
               /\ ret[t].val.I \in {dev.gains[3], 0}

\* -------------------------------------------------------------------- C27
\* The lock is free or held by a call in flight.
C27_LockDiscipline ==
    /\ lock \in {Free} \cup Threads
    /\ \A t \in Threads : lock = t => InFlight(t)
\* A call that cannot take its next step waits for the lock, which another
\* call in flight holds; so the call that holds the lock can take its next
\* step: it is not at a statement that acquires the lock.
C27_Progress ==
    \A t \in Threads :
        pc[t] # "idle" =>
            \/ \E u \in Threads \ {t} : lock = u /\ InFlight(u)
            \/ ENABLED Run(t)
\* How far a call is from its end: every step of the call brings it nearer.
StepsLeft(t) ==
    LET p == pc[t]
        gains == 3 - Len(loc[t].gains)
    IN  CASE p = "idle" -> 0
          [] p = "done" -> 1
          [] p \in {"set_pid_wr", "set_pid_cmd"} -> 10 + Len(loc[t].todo)
          [] p \in {"write_holding_io", "set_flow_rate_cmd", "set_pressure_cmd",
                    "set_gas_cmd"} -> 17
          [] p \in {"write_holding", "read_pair_io"} -> 18
          [] p \in {"set_flow_rate", "set_pressure", "set_gas", "set_pid",
                    "read_pair"} -> 19
          [] p \in {"read_pid_sel", "read_pid_cmd"} -> 20 + 2 * gains
          [] p = "read_pid_rd" -> 19 + 2 * gains
          [] p = "read_pid" -> 27
          [] p = "read_build" -> 28
          [] p \in {"read_io", "read_cmd"} -> 29
          [] p = "read" -> 30
          [] p = "close_flag" -> 31
          [] p = "close_clear" -> 32
          [] p = "close_call" -> 33
          [] p = "close" -> 34
          [] p = "initialize_flag" -> 35
          [] p = "initialize_probe" -> 36
          [] p \in {"initialize_connect", "initialize_open"} -> 37
          [] p = "initialize" -> 38
          [] p = "shutdown" -> 39
          [] p = "write" -> 40
C27_Terminates ==
    \A t \in Threads :
        pc[t] # "idle" /\ <<pc[t], loc[t]>>' # <<pc[t], loc[t]>>
            => StepsLeft(t)' < StepsLeft(t)

\* C27: no public operation of either driver tries to acquire the handle's
\* non-reentrant lock while the same call already holds it, and the lock is
\* released on every exit path; every operation terminates (each of its steps
\* is a step towards its end, and a call is held up only by another call that
\* holds the lock and is not held up itself) and does not hold the lock
\* afterwards, so no sequence of operations and failures deadlocks a handle.
C27_NoDeadlock ==
    [](C27_LockDiscipline /\ C27_Progress) /\ [][C27_Terminates]_vars

\* One call waits for the lock while another call, which holds it, goes on.
C27_Witness ==
    \E t, u \in Threads :
        /\ t # u /\ lock = u /\ InFlight(u) /\ ENABLED Run(u)
        /\ InFlight(t) /\ ~ENABLED Run(t)

\* -------------------------------------------------------------------- C28
HandlePresent == IF kind = "modbus" THEN cli.obj ELSE serial.obj
\* C28: in hardware mode, under any interleaving of initialize, close and other
\* operations by concurrent callers, connected == true implies that a
\* transport handle is present (binary: the client; ASCII: the serial port).
\* Stated for the states in which no call is in the middle of its statements.
C28_Counterexample ==
    (~dummy /\ connected /\ \A t \in Threads : ~InFlight(t)) => HandlePresent

\* -------------------------------------------------------------------- C29
ReadReturned(t) == Returned(t, "read") /\ ret[t].st = "ok"
\* C29: whenever read() returns a reading without failing, the reading's
\* connected field is true and equals the handle's connected flag at that
\* moment, for both drivers, in hardware and simulation mode, after any
\* sequence of earlier operations (earlier failed reads and close included).
C29_Counterexample ==
    \A t \in Threads :
        ReadReturned(t) =>
            /\ ret[t].val.connected = TRUE
            /\ ret[t].val.connected = connected

\* -------------------------------------------------------------------- C30
TestEnded ==
    /\ test.at = "done"
    /\ \/ test.fn = "connect" /\ test.out.st = "raised"
       \/ test.fn = "run"
\* C30: whenever connect() fails at any step or run() ends, normally or
\* through an error in any step, teardown has closed every device that was
\* opened: close() was called on the flow controller if it was constructed,
\* the power supply's instrument is released, and the error that reaches the
\* caller is the one that caused the failure.
C30_Counterexample ==
    TestEnded =>
        /\ test.alicat.obj => test.alicat.closed
        /\ ~test.rigol.instrument
        /\ test.cause # NoError =>
               test.out.st = "raised" /\ test.out.err = test.cause

\* -------------------------------------------------------------------- C31
RigolBoundary == test.at \in {"idle", "done"}
RigolDown == ~test.rigol.is_connected /\ ~test.rigol.instrument
RigolRefused ==
    /\ test.io = 0
    /\ test.at = "done" =>
           test.out.st = "raised" /\ test.out.err.type = "RigolDP2301Error"
RigolChannelOp ==
    test.fn \notin {"none", "connect", "disconnect", "write", "query"}
\* C31: in the power-supply driver, is_connected implies that the instrument
\* handle is present at every operation boundary; after a connect() that
\* failed at any step, and after disconnect(), is_connected is false and the
\* instrument handle is None; write, query and every channel operation invoked
\* in that state raise RigolDP2301Error without instrument I/O; and a channel
\* operation with a channel outside 1..3 raises RigolDP2301Error before any
\* instrument I/O.
C31_RigolGuards ==
    /\ RigolBoundary /\ test.rigol.is_connected => test.rigol.instrument
    /\ (test.at = "done" /\ test.fn = "connect" /\ test.out.st = "raised") =>
           RigolDown /\ test.out.err.type = "RigolDP2301Error"
    /\ (test.at = "done" /\ test.fn = "disconnect") =>
           RigolDown /\ test.out.st = "ok"
    /\ (test.fn \in {"write", "query"} \/ RigolChannelOp) /\ RigolDown =>
           RigolRefused
    /\ RigolChannelOp /\ test.channel \notin 1..MAX_CHANNELS => RigolRefused

\* After a connect() that failed, a channel operation with a valid channel has
\* been refused with RigolDP2301Error by write() or query(), with no
\* instrument I/O.
C31_Witness ==
    /\ test.at = "done" /\ RigolChannelOp
    /\ test.prev = [fn |-> "connect", st |-> "raised"]
    /\ test.channel \in 1..MAX_CHANNELS
    /\ RigolDown
    /\ test.out.st = "raised" /\ test.out.err.from \in {"write", "query"}
    /\ test.io = 0

====
